---------------------------- MODULE Spec2Model ----------------------------
(***************************************************************************)
(* The createEvent mutation of talawa-api: authorization, the recurring    *)
(* and simple creation paths inside one database transaction, attachment   *)
(* rows and their blob writes, and the recurrence helpers it calls.        *)
(*                                                                         *)
(* Instants are whole days counted from 2024-01-01 (a Monday), all at the  *)
(* same time of day; a duration is a number of days.                       *)
(***************************************************************************)
EXTENDS Integers, Sequences, FiniteSets, TLC

(***************************************************************************)
(* Bounds of the model.                                                    *)
(***************************************************************************)
\* the longest attachment list a request supplies
MaxAtt == 2
\* the longest authored duration (endAt - startAt), in days
MaxDur == 1
\* the latest authored start day
MaxStart == 1
\* how far the wall clock advances over the direct calls of a helper function
MaxClock == 2
\* the most direct calls of one helper function
MaxCalls == 2
\* the instants within one second the model tells apart: the whole second
\* and Millis - 1 instants with a fraction of a second
Millis == 2

\* the requests the model runs one after the other, in either order: r1 draws
\* its input from the full input sets, r2 from the reduced ones
Sequential == {"r1", "r2"}

\* the requests the model runs concurrently, both with reduced input sets
Concurrent == {"c1", "c2"}

Requests == Sequential \cup Concurrent

Reduced == {"r2"} \cup Concurrent

(***************************************************************************)
(* Optional values: JavaScript's undefined is the empty sequence, a        *)
(* defined value v the one-element sequence <<v>>.                         *)
(***************************************************************************)
None == <<>>
Some(v) == <<v>>
IsSome(o) == o # <<>>
Val(o) == o[1]

(***************************************************************************)
(* Instants.  A Date is modelled by the day it falls on and the fraction   *)
(* of a second it carries: day d at the whole second is d * Millis, the    *)
(* same time with a fraction ms of a second is d * Millis + ms.  The time  *)
(* of day is the same for all instants (00:00:00 UTC).  Day 0 is           *)
(* 2024-01-01, a Monday.                                                   *)
(***************************************************************************)
AtDay(d, ms) == d * Millis + ms

DayOf(t) == t \div Millis

MillisOf(t) == t % Millis

\* what is left of a Date written as YYYYMMDDTHHMMSSZ and parsed again
TruncateToSecond(t) == t - MillisOf(t)

(***************************************************************************)
(* Calendar arithmetic (date-fns addYears, and the weekday rrule uses).    *)
(***************************************************************************)
IsLeap(y) == (y % 4 = 0 /\ y % 100 # 0) \/ y % 400 = 0

DaysInYear(y) == IF IsLeap(y) THEN 366 ELSE 365

DaysInMonth(y, m) ==
    IF m = 2 THEN (IF IsLeap(y) THEN 29 ELSE 28)
    ELSE IF m \in {4, 6, 9, 11} THEN 30 ELSE 31

\* the day number of January 1st of year y (day 0 is 2024-01-01)
RECURSIVE YearStart(_)
YearStart(y) ==
    IF y = 2024 THEN 0
    ELSE IF y > 2024 THEN YearStart(y - 1) + DaysInYear(y - 1)
    ELSE YearStart(y + 1) - DaysInYear(y)

RECURSIVE YearOfFrom(_, _)
YearOfFrom(d, y) ==
    IF d < YearStart(y) THEN YearOfFrom(d, y - 1)
    ELSE IF d >= YearStart(y + 1) THEN YearOfFrom(d, y + 1)
    ELSE y

YearOf(d) == YearOfFrom(d, 2024)

RECURSIVE MonthOfFrom(_, _, _)
MonthOfFrom(y, rest, m) ==
    IF rest < DaysInMonth(y, m) THEN m ELSE MonthOfFrom(y, rest - DaysInMonth(y, m), m + 1)

MonthOf(d) == MonthOfFrom(YearOf(d), d - YearStart(YearOf(d)), 1)

RECURSIVE MonthStart(_, _)
MonthStart(y, m) ==
    IF m = 1 THEN YearStart(y) ELSE MonthStart(y, m - 1) + DaysInMonth(y, m - 1)

MonthDayOf(d) == d - MonthStart(YearOf(d), MonthOf(d)) + 1

Min(a, b) == IF a <= b THEN a ELSE b

\* the day one year after day d: the same month and day, the day clamped to
\* the length of the month (Feb 29 becomes Feb 28)
AddYearsToDay(d) ==
    LET y == YearOf(d)
        m == MonthOf(d)
        dom == MonthDayOf(d)
    IN  MonthStart(y + 1, m) + Min(dom, DaysInMonth(y + 1, m)) - 1

\* date-fns addYears(date, 1): one year on, the time of day kept
AddYears(t) == AtDay(AddYearsToDay(DayOf(t)), MillisOf(t))

\* rrule's weekday number of a day: MO=0 .. SU=6
Weekday(d) == d % 7

(***************************************************************************)
(* The recurrence helpers (recurringEventHelpers.ts) and the rrule calls   *)
(* they make.                                                              *)
(***************************************************************************)
FREQ_MAP ==
    [YEARLY |-> 0, MONTHLY |-> 1, WEEKLY |-> 2, DAILY |-> 3,
     HOURLY |-> 4, MINUTELY |-> 5, SECONDLY |-> 6]

\* mutant: the ordinals begin with Sunday
WEEKDAY_MAP_SundayFirst ==
    [SU |-> 0, MO |-> 1, TU |-> 2, WE |-> 3, TH |-> 4, FR |-> 5, SA |-> 6]

WEEKDAY_MAP ==
    [MO |-> 0, TU |-> 1, WE |-> 2, TH |-> 3, FR |-> 4, SA |-> 5, SU |-> 6]

FreqName(n) == CHOOSE f \in DOMAIN FREQ_MAP : FREQ_MAP[f] = n

WeekdayCode(n) == CHOOSE c \in DOMAIN WEEKDAY_MAP : WEEKDAY_MAP[c] = n

SeqRange(s) == {s[i] : i \in 1..Len(s)}

\* what WEEKDAY_MAP[day] gives for a key the map does not have
undefinedWeekday == -1

\* mutant: a code the map does not have is taken for MO
MapWeekdayOrMonday(day) ==
    IF day \in DOMAIN WEEKDAY_MAP THEN WEEKDAY_MAP[day] ELSE WEEKDAY_MAP.MO

\* recurringEventHelpers.ts 99: WEEKDAY_MAP[day as keyof typeof WEEKDAY_MAP]
MapWeekday(day) ==
    IF day \in DOMAIN WEEKDAY_MAP THEN WEEKDAY_MAP[day] ELSE undefinedWeekday

MapWeekdays(s) == [i \in 1..Len(s) |-> MapWeekday(s[i])]

WeekdayCodes(s) == [i \in 1..Len(s) |-> WeekdayCode(s[i])]

\* `x || 1` on an optional number: 1 when x is undefined or 0
IntervalOrOne(o) == IF IsSome(o) /\ Val(o) # 0 THEN Val(o) ELSE 1

\* mutant: a list option is set whenever the list is present
ListOptionAnyLength(o) == o

\* a list option is set when the list is present and not empty
ListOption(o) == IF IsSome(o) /\ Len(Val(o)) > 0 THEN o ELSE None

\* the options object generateRecurrenceRuleString builds; dtstart is
\* recurrenceStartDate, or the clock read at the call (`now`) when the caller
\* gives none.  createEvent always gives it.
RuleOptions(recurrence, now) ==
    [freq |-> FREQ_MAP[recurrence.frequency],
     interval |-> IntervalOrOne(recurrence.interval),
     dtstart |-> IF IsSome(recurrence.recurrenceStartDate)
                 THEN Val(recurrence.recurrenceStartDate) ELSE now,
     count |-> IF IsSome(recurrence.count) /\ Val(recurrence.count) # 0
               THEN recurrence.count ELSE None,
     until |-> recurrence.recurrenceEndDate,
     byweekday |-> IF IsSome(ListOption(recurrence.byDay))
                   THEN Some(MapWeekdays(Val(recurrence.byDay))) ELSE None,
     bymonth |-> ListOption(recurrence.byMonth),
     bymonthday |-> ListOption(recurrence.byMonthDay)]

\* RRule.toString(): DTSTART and the RRULE parts that are set, as key/value
\* pairs in the order rrule writes them
OptPart(key, o) == IF IsSome(o) THEN << <<key, Val(o)>> >> ELSE <<>>

RuleToString(o) ==
    [dtstart |-> TruncateToSecond(o.dtstart),
     parts |-> << <<"FREQ", FreqName(o.freq)>>, <<"INTERVAL", o.interval>> >>
               \o OptPart("COUNT", o.count)
               \o OptPart("UNTIL", IF IsSome(o.until)
                                    THEN Some(TruncateToSecond(Val(o.until)))
                                    ELSE None)
               \o OptPart("BYDAY", IF IsSome(o.byweekday)
                                   THEN Some(WeekdayCodes(Val(o.byweekday)))
                                   ELSE None)
               \o OptPart("BYMONTH", o.bymonth)
               \o OptPart("BYMONTHDAY", o.bymonthday)]

\* new rrule.RRule(options) reads `.n` of every byweekday element that is
\* neither a number nor a weekday string, and so throws a TypeError on an
\* undefined element
RRuleThrows(o) ==
    /\ IsSome(o.byweekday)
    /\ \E i \in 1..Len(Val(o.byweekday)) : Val(o.byweekday)[i] = undefinedWeekday

\* what a call that throws the TypeError yields instead of a rule string
TypeError == [error |-> "TypeError"]

generateRecurrenceRuleString(recurrence, now) ==
    IF RRuleThrows(RuleOptions(recurrence, now))
    THEN TypeError
    ELSE RuleToString(RuleOptions(recurrence, now))

\* the value of part `key` of a rule string, if the string has it
Part(str, key) ==
    LET hit == {i \in 1..Len(str.parts) : str.parts[i][1] = key}
    IN  IF hit = {} THEN None ELSE Some(str.parts[CHOOSE i \in hit : TRUE][2])

\* rrulestr(): the options a rule string parses to, with rrule's defaults for
\* the BYxxx parts the string leaves out
rrulestr(str) ==
    LET freq == FREQ_MAP[Val(Part(str, "FREQ"))]
        wd == Part(str, "BYDAY")
        bm == Part(str, "BYMONTH")
        bmd == Part(str, "BYMONTHDAY")
        bare == ~IsSome(wd) /\ ~IsSome(bmd)
    IN  [freq |-> freq,
         interval |-> IF IsSome(Part(str, "INTERVAL")) THEN Val(Part(str, "INTERVAL")) ELSE 1,
         dtstart |-> str.dtstart,
         count |-> Part(str, "COUNT"),
         until |-> Part(str, "UNTIL"),
         byweekday |-> IF IsSome(wd) THEN SeqRange(MapWeekdays(Val(wd)))
                       ELSE IF bare /\ freq = FREQ_MAP.WEEKLY THEN {Weekday(DayOf(str.dtstart))}
                       ELSE {},
         bymonth |-> IF IsSome(bm) THEN SeqRange(Val(bm))
                     ELSE IF bare /\ freq = FREQ_MAP.YEARLY THEN {MonthOf(DayOf(str.dtstart))}
                     ELSE {},
         bymonthday |-> IF IsSome(bmd) THEN SeqRange(Val(bmd))
                        ELSE IF bare /\ freq \in {FREQ_MAP.YEARLY, FREQ_MAP.MONTHLY}
                             THEN {MonthDayOf(DayOf(str.dtstart))}
                        ELSE {}]

WeekStart(d) == d - Weekday(d)

MonthIndex(d) == YearOf(d) * 12 + MonthOf(d)

\* day d lies in a period the rule's frequency and interval select
InPeriod(rule, d) ==
    LET first == DayOf(rule.dtstart)
    IN  IF rule.freq = FREQ_MAP.DAILY THEN (d - first) % rule.interval = 0
        ELSE IF rule.freq = FREQ_MAP.WEEKLY
             THEN ((WeekStart(d) - WeekStart(first)) \div 7) % rule.interval = 0
        ELSE IF rule.freq = FREQ_MAP.MONTHLY
             THEN (MonthIndex(d) - MonthIndex(first)) % rule.interval = 0
        ELSE (YearOf(d) - YearOf(first)) % rule.interval = 0

\* the rule has an occurrence on day d, count and until aside
Occurs(rule, d) ==
    /\ d >= DayOf(rule.dtstart)
    /\ InPeriod(rule, d)
    /\ rule.byweekday = {} \/ Weekday(d) \in rule.byweekday
    /\ rule.bymonth = {} \/ MonthOf(d) \in rule.bymonth
    /\ rule.bymonthday = {} \/ MonthDayOf(d) \in rule.bymonthday

\* the elements of a set of instants in ascending order
Ascending(S) ==
    [i \in 1..Cardinality(S) |-> CHOOSE d \in S : Cardinality({e \in S : e < d}) = i - 1]

\* rrule's iteration: the occurrences from dtstart on, each at dtstart's time
\* of day, ending at UNTIL and after COUNT occurrences (counted from
\* dtstart), here up to the instant `last`
Occurrences(rule, last) ==
    LET stop == IF IsSome(rule.until) THEN Min(last, Val(rule.until)) ELSE last
        days == {d \in DayOf(rule.dtstart)..DayOf(stop) : Occurs(rule, d)}
        all == {t \in {AtDay(d, MillisOf(rule.dtstart)) : d \in days} : t <= stop}
    IN  IF IsSome(rule.count)
        THEN {d \in all : Cardinality({e \in all : e < d}) < Val(rule.count)}
        ELSE all

\* mutant: rule.between(after, before) without the inclusive flag
RuleBetweenExclusive(rule, after, before) ==
    Ascending({d \in Occurrences(rule, before) : after < d /\ d < before})

\* rule.between(after, before, true): both ends inclusive, ascending
RuleBetween(rule, after, before) ==
    Ascending({d \in Occurrences(rule, before) : after <= d /\ d <= before})

\* recurringEventHelpers.ts 125: endDate || queryEndDate || addYears(new Date(), 1)
EffectiveEndDate(endDate, queryEndDate, now) ==
    IF IsSome(endDate) THEN Val(endDate)
    ELSE IF IsSome(queryEndDate) THEN Val(queryEndDate)
    ELSE AddYears(now)

\* endDate and queryEndDate are optional; `now` is the clock at the call
getRecurringInstanceDates(rRuleString, startDate, endDate, queryEndDate, now) ==
    RuleBetween(rrulestr(rRuleString), startDate,
                EffectiveEndDate(endDate, queryEndDate, now))

(***************************************************************************)
(* The inputs of a createEvent request.                                    *)
(***************************************************************************)
\* eventAttachmentMimeTypeEnum: the allow-listed media types
eventAttachmentMimeTypeEnum == {"image/jpeg", "image/png", "video/mp4"}

\* the media types the uploads of the model declare
MimeTypes == {"image/jpeg", "text/plain"}

Seqs(S, n) == UNION {[1..k -> S] : k \in 0..n}

\* input.attachments: undefined, or a list of uploads, each given by its
\* mimetype; the reduced request uploads one image/png file or nothing
AttachmentInputs(r) ==
    IF r \in Reduced THEN {None, Some(<<"image/png">>)}
    ELSE {None} \cup {Some(a) : a \in Seqs(MimeTypes, MaxAtt)}

Recurrence(frequency, count, recurrenceEndDate, byDay) ==
    [frequency |-> Some(frequency), interval |-> Some(1), count |-> count,
     recurrenceEndDate |-> recurrenceEndDate, byDay |-> byDay,
     byMonth |-> None, byMonthDay |-> None]

\* input.recurrence: undefined, or one of these recurrence specifications
RecurrenceInputs(r) ==
    IF r \in Reduced
    THEN {None, Some(Recurrence("DAILY", None, Some(AtDay(MaxStart + 2, 0)), None))}
    ELSE
    {None,
     Some(Recurrence("DAILY", None, Some(AtDay(MaxStart + 2, 0)), None)),
     Some(Recurrence("DAILY", None, Some(AtDay(0, 0)), None)),
     Some(Recurrence("DAILY", Some(2), None, None)),
     Some(Recurrence("DAILY", Some(2), Some(AtDay(0, 0)), None)),
     Some(Recurrence("WEEKLY", None, Some(AtDay(MaxStart + 8, 0)), Some(<<"MO", "WE">>))),
     Some(Recurrence("WEEKLY", None, None, None)),
     Some(Recurrence("WEEKLY", Some(6), None, Some(<<"MO", "WE", "FR">>))),
     Some(Recurrence("WEEKLY", None, None, Some(<<"MO", "XX">>)))}

\* the organizations table holds o1 and o2; o3 names no organization
organizationsTable == {"o1", "o2"}

OrganizationIds == {"o1", "o3"}

Roles == {"administrator", "regular"}

\* startAt: a whole second of one of the days 0..MaxStart, or day 0 with a
\* fraction of a second
StartInputs(r) ==
    IF r \in Reduced THEN {AtDay(MaxStart, 0)}
    ELSE {AtDay(d, 0) : d \in 0..MaxStart} \cup {AtDay(0, 1)}

\* endAt - startAt: a number of days
DurationInputs(r) ==
    IF r \in Reduced THEN {AtDay(MaxDur, 0)} ELSE {AtDay(d, 0) : d \in 0..MaxDur}

\* the wall clock at the call: more than a year before the first start day,
\* 2023-01-02 (a year before day 1), and 2023-01-15 (a year before day 14)
NowChoices ==
    {AtDay(YearStart(2023) - 30, 0), AtDay(YearStart(2023) + 1, 0),
     AtDay(YearStart(2023) + 14, 0)}

\* A field of a request's input is drawn when the resolver first reads it: the
\* session at the authentication check, the attachments when the arguments are
\* parsed, the organization id at the queries, and startAt, endAt and the
\* recurrence inside the transaction.  endAt is startAt plus a duration >= 0.
endAt(in) == in.startAt + in.duration

(***************************************************************************)
(* State.                                                                  *)
(***************************************************************************)
VARIABLES
    pc,           \* where each request is in the resolver
    input,        \* args and session of each request
    lookup,       \* currentUser and existingOrganization, while they are live
    locals,       \* the variables of the transaction callback
    tx,           \* the rows each request's transaction has written, uncommitted
    outcome,      \* what the request ended with: an error or the returned event
    events,       \* committed rows of the events table
    rules,        \* committed rows of the recurrence_rules table
    attachments,  \* committed rows of the event_attachments table
    puts,         \* the putObject calls each request issued
    blobs,        \* the objects in the bucket
    nextId,       \* uuidv7: the next row id
    nextName,     \* ulid: the next attachment name
    logged,       \* whether ctx.log.error was called by the request
    responded,    \* the requests whose response or error has been delivered
    helpers       \* direct calls of the functions of recurringEventHelpers.ts:
                  \* the argument, the wall clock and what the calls returned

vars == <<pc, input, lookup, locals, tx, outcome, events, rules, attachments,
          puts, blobs, nextId, nextName, logged, responded, helpers>>

resolverVars == <<pc, input, lookup, locals, tx, outcome, events, rules,
                  attachments, puts, blobs, nextId, nextName, logged, responded>>

storeVars == <<events, rules, attachments>>

NoInput ==
    [isAuthenticated |-> FALSE, organizationId |-> "o3", startAt |-> 0,
     duration |-> 0, recurrence |-> None, attachments |-> None]

NoLookup ==
    [done |-> FALSE, memberships |-> [o \in organizationsTable |-> None],
     currentUser |-> None, existingOrganization |-> None]

NoLocals ==
    [baseRecurringEvent |-> None, recurrenceRuleId |-> None,
     recurrenceRuleString |-> None, eventDuration |-> None, clock |-> None,
     instanceDates |-> <<>>, createdEvent |-> None, path |-> "none",
     createdEventAttachments |-> <<>>, returned |-> None]

NoTx == [state |-> "none", events |-> {}, rules |-> {}, attachments |-> {}]

NoOutcome == [code |-> "none", issues |-> <<>>, data |-> None]

Ended == {"Committed", "Aborted"}

\* no direct call of a helper function has been made
NoHelperCalls ==
    [recurrence |-> None, now |-> 0, ruleStrings |-> <<>>, expansion |-> None]

InitResolver ==
    /\ pc = [r \in Requests |-> "idle"]
    /\ input = [r \in Requests |-> NoInput]
    /\ lookup = [r \in Requests |-> NoLookup]
    /\ locals = [r \in Requests |-> NoLocals]
    /\ tx = [r \in Requests |-> NoTx]
    /\ outcome = [r \in Requests |-> NoOutcome]
    /\ events = {}
    /\ rules = {}
    /\ attachments = {}
    /\ puts = [r \in Requests |-> <<>>]
    /\ blobs = {}
    /\ nextId = 1
    /\ nextName = 1
    /\ logged = [r \in Requests |-> FALSE]
    /\ responded = {}

Init ==
    /\ InitResolver
    /\ helpers = NoHelperCalls

(***************************************************************************)
(* Throwing: the resolver ends with an error.  drizzle's transaction()     *)
(* rolls back when its callback throws, so an open transaction loses the   *)
(* rows it wrote.                                                          *)
(***************************************************************************)
\* mutant: a rollback is recorded whether or not a transaction was open
RollbackAlways(t) ==
    [state |-> "rolledback", events |-> {}, rules |-> {}, attachments |-> {}]

\* mutant: the rollback ends the transaction but keeps the rows it wrote
RollbackKeepsRows(t) ==
    IF t.state = "open" THEN [t EXCEPT !.state = "rolledback"] ELSE t

Rollback(t) ==
    IF t.state = "open"
    THEN [state |-> "rolledback", events |-> {}, rules |-> {}, attachments |-> {}]
    ELSE t

\* mutant: the error surfaces only after the rows written so far were committed
ThrowAfterCommit(r, code, issues) ==
    /\ pc' = [pc EXCEPT ![r] = "Aborted"]
    /\ outcome' = [outcome EXCEPT ![r] = [code |-> code, issues |-> issues, data |-> None]]
    /\ tx' = [tx EXCEPT ![r] = Rollback(tx[r])]
    /\ events' = events \cup tx[r].events
    /\ rules' = rules \cup tx[r].rules
    /\ attachments' = attachments \cup tx[r].attachments

Throw(r, code, issues) ==
    /\ pc' = [pc EXCEPT ![r] = "Aborted"]
    /\ outcome' = [outcome EXCEPT ![r] = [code |-> code, issues |-> issues, data |-> None]]
    /\ tx' = [tx EXCEPT ![r] = Rollback(tx[r])]
    /\ UNCHANGED storeVars

\* the requests run one after the other
Start(r) ==
    /\ pc[r] = "idle"
    /\ \A q \in Requests \ {r} : pc[q] = "idle" \/ q \in responded
    /\ \E a \in BOOLEAN : input' = [input EXCEPT ![r].isAuthenticated = a]
    /\ pc' = [pc EXCEPT ![r] = "AuthCheck"]
    /\ UNCHANGED <<lookup, locals, tx, outcome, storeVars, puts, blobs, nextId,
                   nextName, logged, responded>>
    /\ UNCHANGED helpers

\* the attachments of a request that is refused before its arguments are
\* read: none, or one file of a mimetype that is not allowed
UnreadAttachments(r) ==
    IF r \in Reduced THEN {None} ELSE {None, Some(<<"text/plain">>)}

\* createEvent.ts 76-82; the arguments of a request without a session are
\* never parsed, whatever they are
AuthCheck(r) ==
    /\ pc[r] = "AuthCheck"
    /\ IF ~input[r].isAuthenticated
       THEN /\ Throw(r, "unauthenticated", <<>>)
            /\ \E atts \in UnreadAttachments(r) :
                  input' = [input EXCEPT ![r].attachments = atts]
       ELSE /\ pc' = [pc EXCEPT ![r] = "ParseArgs"]
            /\ UNCHANGED <<input, outcome, tx, storeVars>>
    /\ UNCHANGED <<lookup, locals, puts, blobs, nextId, nextName,
                   logged, responded>>
    /\ UNCHANGED helpers

\* mutant: one disallowed mimetype raises an issue for every attachment
MimeIssueAtEvery(atts, i) ==
    \E j \in 1..Len(atts) : atts[j] \notin eventAttachmentMimeTypeEnum

MimeIssueAt(atts, i) == atts[i] \notin eventAttachmentMimeTypeEnum

RECURSIVE IssuesFrom(_, _)
IssuesFrom(atts, i) ==
    IF i > Len(atts) THEN <<>>
    ELSE (IF MimeIssueAt(atts, i) THEN << <<"input", "attachments", i - 1>> >> ELSE <<>>)
         \o IssuesFrom(atts, i + 1)

\* a recurrence that names no frequency
RecurrenceWithoutFrequency ==
    [frequency |-> None, interval |-> Some(1), count |-> None,
     recurrenceEndDate |-> None, byDay |-> None, byMonth |-> None,
     byMonthDay |-> None]

\* what the parse sees of input.recurrence: nothing the schema objects to
\* (None here; the recurrence is drawn inside the transaction), or a
\* recurrence without frequency
UnparsedRecurrences(r) ==
    IF r \in Reduced THEN {None} ELSE {None, Some(RecurrenceWithoutFrequency)}

\* recurrenceInputSchema: frequency is a required enum
SchemaIssues(in) ==
    IF IsSome(in.recurrence) /\ ~IsSome(Val(in.recurrence).frequency)
    THEN << <<"input", "recurrence", "frequency">> >>
    ELSE <<>>

\* the issues the arguments schema raises: those of the input schema, or,
\* when it has none and the transform runs, one per attachment whose mimetype
\* is not in the enum, addressed at its index (0-based)
ArgumentIssues(in) ==
    IF SchemaIssues(in) # <<>> THEN SchemaIssues(in)
    ELSE IF IsSome(in.attachments) THEN IssuesFrom(Val(in.attachments), 1)
    ELSE <<>>

\* createEvent.ts 84-100; the request without frequency carries no attachments
ParseArgs(r) ==
    /\ pc[r] = "ParseArgs"
    /\ \E atts \in AttachmentInputs(r), rec \in UnparsedRecurrences(r) :
          LET in == [input[r] EXCEPT !.attachments = atts, !.recurrence = rec]
          IN  /\ IsSome(rec) => ~IsSome(atts)
              /\ input' = [input EXCEPT ![r] = in]
              /\ IF ArgumentIssues(in) # <<>>
                 THEN Throw(r, "invalid_arguments", ArgumentIssues(in))
                 ELSE /\ pc' = [pc EXCEPT ![r] = "Lookup"]
                      /\ UNCHANGED <<outcome, tx, storeVars>>
    /\ UNCHANGED <<lookup, locals, puts, blobs, nextId, nextName,
                   logged, responded>>
    /\ UNCHANGED helpers

\* the rows the two queries can find: the users row of the session's user id
\* (its role) and that user's membership role in each organization
UserRows == {None} \cup {Some(role) : role \in Roles}

\* the caller's memberships: any role or none in o1, administrator or none in o2
MembershipTables ==
    {m \in [organizationsTable -> {None} \cup {Some(role) : role \in Roles}] :
        m["o2"] # Some("regular")}

\* mutant: the organization query has no condition on the id
FindOrganizationAnyId(organizationId, memberships) ==
    Some([membershipsWhereOrganization |->
            IF organizationId \in organizationsTable /\ IsSome(memberships[organizationId])
            THEN <<[role |-> Val(memberships[organizationId])]>>
            ELSE <<>>])

FindOrganization(organizationId, memberships) ==
    IF organizationId \in organizationsTable
    THEN Some([membershipsWhereOrganization |->
                 IF IsSome(memberships[organizationId])
                 THEN <<[role |-> Val(memberships[organizationId])]>>
                 ELSE <<>>])
    ELSE None

\* createEvent.ts 102-127: the two findFirst queries
Lookup(r) ==
    /\ pc[r] = "Lookup"
    /\ \E org \in OrganizationIds, user \in UserRows, memberships \in MembershipTables :
          /\ ~IsSome(user) => \A o \in organizationsTable : ~IsSome(memberships[o])
          /\ input' = [input EXCEPT ![r].organizationId = org]
          /\ lookup' = [lookup EXCEPT ![r] =
                [done |-> TRUE, memberships |-> memberships, currentUser |-> user,
                 existingOrganization |-> FindOrganization(org, memberships)]]
    /\ pc' = [pc EXCEPT ![r] = "ResourceCheck"]
    /\ UNCHANGED <<locals, tx, outcome, storeVars, puts, blobs, nextId, nextName,
                   logged, responded>>
    /\ UNCHANGED helpers

\* mutant: any membership in the organization is enough
NotAdministratorAnyMembership(currentUser, existingOrganization) ==
    LET ms == Val(existingOrganization).membershipsWhereOrganization
    IN  /\ Val(currentUser) # "administrator"
        /\ Len(ms) = 0

\* createEvent.ts 150-157: the condition under which the caller is refused
NotAdministrator(currentUser, existingOrganization) ==
    LET ms == Val(existingOrganization).membershipsWhereOrganization
    IN  /\ Val(currentUser) # "administrator"
        /\ (Len(ms) = 0 \/ ms[1].role # "administrator")

\* mutant: a caller who is no global administrator is refused before the
\* organization is looked at
ResourceErrorRoleFirst(l) ==
    IF ~IsSome(l.currentUser) THEN "unauthenticated"
    ELSE IF ~IsSome(l.existingOrganization)
         THEN IF Val(l.currentUser) # "administrator"
              THEN "unauthorized_action_on_arguments_associated_resources"
              ELSE "arguments_associated_resources_not_found"
    ELSE IF NotAdministrator(l.currentUser, l.existingOrganization)
         THEN "unauthorized_action_on_arguments_associated_resources"
    ELSE "none"

\* mutant: the organization is checked before the user
ResourceErrorOrganizationFirst(l) ==
    IF ~IsSome(l.existingOrganization)
    THEN "arguments_associated_resources_not_found"
    ELSE IF ~IsSome(l.currentUser) THEN "unauthenticated"
    ELSE IF NotAdministrator(l.currentUser, l.existingOrganization)
         THEN "unauthorized_action_on_arguments_associated_resources"
    ELSE "none"

\* the error the checks of createEvent.ts 129-168 end with, "none" if they pass
ResourceError(l) ==
    IF ~IsSome(l.currentUser) THEN "unauthenticated"
    ELSE IF ~IsSome(l.existingOrganization)
         THEN "arguments_associated_resources_not_found"
    ELSE IF NotAdministrator(l.currentUser, l.existingOrganization)
         THEN "unauthorized_action_on_arguments_associated_resources"
    ELSE "none"

ResourceIssues(code) ==
    IF code = "unauthenticated" THEN <<>> ELSE << <<"input", "organizationId">> >>

\* createEvent.ts 129-168
ResourceCheck(r) ==
    /\ pc[r] = "ResourceCheck"
    /\ IF ResourceError(lookup[r]) # "none"
       THEN Throw(r, ResourceError(lookup[r]), ResourceIssues(ResourceError(lookup[r])))
       ELSE /\ pc' = [pc EXCEPT ![r] = "TxBegin"]
            /\ UNCHANGED <<outcome, tx, storeVars>>
    /\ UNCHANGED <<input, lookup, locals, puts, blobs, nextId, nextName,
                   logged, responded>>
    /\ UNCHANGED helpers

\* createEvent.ts 170-176: the transaction opens; currentUser and
\* existingOrganization are not read again
TxBegin(r) ==
    /\ pc[r] = "TxBegin"
    /\ tx' = [tx EXCEPT ![r].state = "open"]
    /\ lookup' = [lookup EXCEPT ![r] = NoLookup]
    /\ \E s \in StartInputs(r), d \in DurationInputs(r), rec \in RecurrenceInputs(r) :
          /\ input' = [input EXCEPT ![r].startAt = s, ![r].duration = d,
                                     ![r].recurrence = rec]
          /\ pc' = [pc EXCEPT ![r] = IF IsSome(rec) THEN "BaseInsert" ELSE "EventInsert"]
    /\ UNCHANGED <<locals, outcome, storeVars, puts, blobs, nextId, nextName,
                   logged, responded>>
    /\ UNCHANGED helpers

(***************************************************************************)
(* The transaction callback (createEvent.ts 170-399).                      *)
(***************************************************************************)
\* what an insert ... returning() can do: return the inserted row, return no
\* row, or throw
InsertResults == {"row", "norow", "throw"}

\* a row of the events table; isRecurring and isBaseRecurringEvent default to
\* false and the two references to null (events.ts 103-132); `by` records the
\* request that inserted the row
EventRow(id, in, startAt, end, isRecurring, isBase, baseId, ruleId, r) ==
    [id |-> id, organizationId |-> in.organizationId, startAt |-> startAt,
     endAt |-> end, isRecurring |-> isRecurring, isBaseRecurringEvent |-> isBase,
     baseRecurringEventId |-> baseId, recurrenceRuleId |-> ruleId, by |-> r]

\* createEvent.ts 178-190: the values of the base recurring event
BaseEventRow(id, in, r) ==
    EventRow(id, in, in.startAt, endAt(in), TRUE, TRUE, None, None, r)

\* createEvent.ts 177-199
BaseInsert(r) ==
    /\ pc[r] = "BaseInsert"
    /\ nextId' = nextId + 1
    /\ \E res \in InsertResults :
          IF res = "row"
          THEN /\ tx' = [tx EXCEPT ![r].events = @ \cup {BaseEventRow(nextId, input[r], r)}]
               /\ locals' = [locals EXCEPT ![r].baseRecurringEvent = Some(nextId)]
               /\ pc' = [pc EXCEPT ![r] = "RuleInsert"]
               /\ UNCHANGED <<outcome, storeVars>>
          ELSE /\ Throw(r, IF res = "norow" THEN "unexpected" ELSE "Error", <<>>)
               /\ UNCHANGED locals
    /\ UNCHANGED <<input, lookup, puts, blobs, nextName, logged, responded>>
    /\ UNCHANGED helpers

\* createEvent.ts 205-209: the argument of generateRecurrenceRuleString
EncoderInput(in) ==
    LET recurrence == Val(in.recurrence)
    IN  [frequency |-> IF IsSome(recurrence.frequency)
                       THEN Val(recurrence.frequency) ELSE "DAILY",
         interval |-> recurrence.interval,
         count |-> recurrence.count,
         recurrenceEndDate |-> recurrence.recurrenceEndDate,
         byDay |-> recurrence.byDay,
         byMonth |-> recurrence.byMonth,
         byMonthDay |-> recurrence.byMonthDay,
         recurrenceStartDate |-> Some(in.startAt)]

\* createEvent.ts 212-214
EventDuration(in) == endAt(in) - in.startAt

\* mutant: the defaulted bound is two years after the clock read
ExpansionBoundTwoYears(recurrence, now) ==
    IF IsSome(recurrence.recurrenceEndDate)
    THEN Val(recurrence.recurrenceEndDate) ELSE AddYears(AddYears(now))

\* createEvent.ts 217-218: the expansion bound, `now` being the clock read
ExpansionBound(recurrence, now) ==
    IF IsSome(recurrence.recurrenceEndDate)
    THEN Val(recurrence.recurrenceEndDate) ELSE AddYears(now)

\* mutant: the high-water mark is the first expanded instant
LatestInstanceDateFirst(instanceDates, startAt) ==
    IF Len(instanceDates) > 0 THEN instanceDates[1] ELSE startAt

\* mutant: without an instant the high-water mark is the epoch
LatestInstanceDateOrEpoch(instanceDates, startAt) ==
    IF Len(instanceDates) > 0 THEN instanceDates[Len(instanceDates)] ELSE 0

\* createEvent.ts 241-243
LatestInstanceDate(instanceDates, startAt) ==
    IF Len(instanceDates) > 0 THEN instanceDates[Len(instanceDates)] ELSE startAt

\* mutant: the rule row refers to an event that is not inserted yet
RuleRowDanglingBase(id, in, baseId, ruleString, instanceDates, r) ==
    LET recurrence == Val(in.recurrence)
    IN  [id |-> id, organizationId |-> in.organizationId,
         baseRecurringEventId |-> id + 1,
         recurrenceRuleString |-> ruleString,
         recurrenceStartDate |-> in.startAt,
         recurrenceEndDate |-> recurrence.recurrenceEndDate,
         frequency |-> recurrence.frequency,
         interval |-> IntervalOrOne(recurrence.interval),
         count |-> recurrence.count,
         byDay |-> recurrence.byDay,
         byMonth |-> recurrence.byMonth,
         byMonthDay |-> recurrence.byMonthDay,
         latestInstanceDate |-> LatestInstanceDate(instanceDates, in.startAt),
         by |-> r]

\* createEvent.ts 228-244: the values of the recurrence rule
RuleRow(id, in, baseId, ruleString, instanceDates, r) ==
    LET recurrence == Val(in.recurrence)
    IN  [id |-> id, organizationId |-> in.organizationId,
         baseRecurringEventId |-> baseId,
         recurrenceRuleString |-> ruleString,
         recurrenceStartDate |-> in.startAt,
         recurrenceEndDate |-> recurrence.recurrenceEndDate,
         frequency |-> recurrence.frequency,
         interval |-> IntervalOrOne(recurrence.interval),
         count |-> recurrence.count,
         byDay |-> recurrence.byDay,
         byMonth |-> recurrence.byMonth,
         byMonthDay |-> recurrence.byMonthDay,
         latestInstanceDate |-> LatestInstanceDate(instanceDates, in.startAt),
         by |-> r]

\* createEvent.ts 201-250; `now` is the wall clock at this step, which the
\* code reads only when no recurrenceEndDate is given.  The step throws when
\* generateRecurrenceRuleString throws, when the insert throws and when the
\* insert returns no row; after a throw of generateRecurrenceRuleString the
\* instants are not computed.
RuleInsert(r) ==
    /\ pc[r] = "RuleInsert"
    /\ nextId' = nextId + 1
    /\ \E res \in InsertResults,
          now \in NowChoices :
        \E ruleString \in
              {generateRecurrenceRuleString(EncoderInput(input[r]), now)} :
        \E instanceDates \in
              {IF ruleString = TypeError THEN <<>>
               ELSE getRecurringInstanceDates(
                        ruleString, input[r].startAt,
                        Some(ExpansionBound(Val(input[r].recurrence), now)),
                        None, now)} :
          LET in == input[r]
              baseId == Val(locals[r].baseRecurringEvent)
          IN  IF ruleString # TypeError /\ res = "row"
              THEN /\ tx' = [tx EXCEPT ![r].rules =
                                @ \cup {RuleRow(nextId, in, baseId, ruleString,
                                                instanceDates, r)}]
                   /\ locals' = [locals EXCEPT
                         ![r].recurrenceRuleString = Some(ruleString),
                         ![r].eventDuration = Some(EventDuration(in)),
                         ![r].clock = Some(now),
                         ![r].instanceDates = instanceDates,
                         ![r].recurrenceRuleId = Some(nextId)]
                   /\ pc' = [pc EXCEPT ![r] = "BackLink"]
                   /\ UNCHANGED <<outcome, storeVars>>
              ELSE /\ Throw(r, "Error", <<>>)
                   /\ UNCHANGED locals
    /\ UNCHANGED <<input, lookup, puts, blobs, nextName, logged, responded>>
    /\ UNCHANGED helpers

\* mutant: the where clause of the update matches no row
SetRecurrenceRuleIdNoMatch(rows, id, ruleId) == rows

\* mutant: the update also sets the base event's reference to itself
SetBothReferences(rows, id, ruleId) ==
    {IF e.id = id THEN [e EXCEPT !.recurrenceRuleId = Some(ruleId),
                                 !.baseRecurringEventId = Some(id)]
     ELSE e : e \in rows}

\* createEvent.ts 252-257: update events set recurrence_rule_id where id = base id
SetRecurrenceRuleId(rows, id, ruleId) ==
    {IF e.id = id THEN [e EXCEPT !.recurrenceRuleId = Some(ruleId)] ELSE e : e \in rows}

\* createEvent.ts 252-262: the back-link, then the branch on instanceDates[0];
\* without a first instance the callback goes on at line 335
BackLink(r) ==
    /\ pc[r] = "BackLink"
    /\ \E ok \in BOOLEAN :
          IF ok
          THEN /\ tx' = [tx EXCEPT ![r].events =
                            SetRecurrenceRuleId(@, Val(locals[r].baseRecurringEvent),
                                                Val(locals[r].recurrenceRuleId))]
               /\ pc' = [pc EXCEPT ![r] =
                     IF Len(locals[r].instanceDates) > 0
                     THEN "InstanceInsert" ELSE "EventInsert"]
               /\ UNCHANGED <<outcome, storeVars>>
          ELSE Throw(r, "Error", <<>>)
    /\ UNCHANGED <<input, lookup, locals, puts, blobs, nextId, nextName,
                   logged, responded>>
    /\ UNCHANGED helpers

\* mutant: the first instance is given the authored start and end
InstanceRowAtAuthoredStart(id, in, firstInstance, eventDuration, baseId, ruleId, r) ==
    EventRow(id, in, in.startAt, endAt(in), TRUE, FALSE, Some(baseId), Some(ruleId), r)

\* mutant: the first instance is inserted without the id of the rule
InstanceRowWithoutRule(id, in, firstInstance, eventDuration, baseId, ruleId, r) ==
    EventRow(id, in, firstInstance, firstInstance + eventDuration, TRUE, FALSE,
             Some(baseId), None, r)

\* createEvent.ts 265-276: the values of the first instance
\* mutant: the two references are counted back from the row's own id, as if
\* the ids of one request were consecutive
InstanceRowCountedBack(id, in, firstInstance, eventDuration, baseId, ruleId, r) ==
    EventRow(id, in, firstInstance, firstInstance + eventDuration, TRUE, FALSE,
             Some(id - 2), Some(id - 1), r)

InstanceRow(id, in, firstInstance, eventDuration, baseId, ruleId, r) ==
    EventRow(id, in, firstInstance, firstInstance + eventDuration, TRUE, FALSE,
             Some(baseId), Some(ruleId), r)

\* mutant: the returned event is annotated with an empty attachment list
ReturnedWithoutAttachments(createdEvent, atts, path, baseId, ruleId) ==
    [event |-> createdEvent, attachments |-> <<>>]

\* createEvent.ts 316-321 and 326-331 (recurring), 391-398 (simple): the
\* object the callback returns
Returned(createdEvent, atts, path, baseId, ruleId) ==
    IF path = "recurring"
    THEN [event |-> [createdEvent EXCEPT !.isRecurring = TRUE,
                                         !.recurrenceRuleId = ruleId,
                                         !.baseRecurringEventId = baseId],
          attachments |-> atts]
    ELSE [event |-> createdEvent, attachments |-> atts]

\* createEvent.ts 261-284 and 323-331
InstanceInsert(r) ==
    /\ pc[r] = "InstanceInsert"
    /\ nextId' = nextId + 1
    /\ \E res \in InsertResults :
          LET l == locals[r]
              row == InstanceRow(nextId, input[r], l.instanceDates[1],
                                 Val(l.eventDuration), Val(l.baseRecurringEvent),
                                 Val(l.recurrenceRuleId), r)
          IN  IF res = "row"
              THEN /\ tx' = [tx EXCEPT ![r].events = @ \cup {row}]
                   /\ locals' = [locals EXCEPT
                         ![r].createdEvent = Some(row),
                         ![r].path = "recurring",
                         ![r].returned =
                             IF IsSome(input[r].attachments) THEN None
                             ELSE Some(Returned(row, <<>>, "recurring",
                                                l.baseRecurringEvent, l.recurrenceRuleId))]
                   /\ pc' = [pc EXCEPT ![r] =
                         IF IsSome(input[r].attachments) THEN "AttachInsert" ELSE "Commit"]
                   /\ UNCHANGED <<outcome, storeVars>>
              ELSE /\ Throw(r, "Error", <<>>)
                   /\ UNCHANGED locals
    /\ UNCHANGED <<input, lookup, puts, blobs, nextName, logged, responded>>
    /\ UNCHANGED helpers

\* mutant: the event of the simple path is flagged recurring
SimpleEventRowRecurring(id, in, r) ==
    EventRow(id, in, in.startAt, endAt(in), TRUE, FALSE, None, None, r)

\* createEvent.ts 337-344: the values of the event of the simple path
SimpleEventRow(id, in, r) ==
    EventRow(id, in, in.startAt, endAt(in), FALSE, FALSE, None, None, r)

\* createEvent.ts 335-358 and 396-398
EventInsert(r) ==
    /\ pc[r] = "EventInsert"
    /\ nextId' = nextId + 1
    /\ \E res \in InsertResults :
          LET row == SimpleEventRow(nextId, input[r], r)
          IN  IF res = "row"
              THEN /\ tx' = [tx EXCEPT ![r].events = @ \cup {row}]
                   /\ locals' = [locals EXCEPT
                         ![r].createdEvent = Some(row),
                         ![r].path = "simple",
                         ![r].returned =
                             IF IsSome(input[r].attachments) THEN None
                             ELSE Some(Returned(row, <<>>, "simple", None, None))]
                   /\ pc' = [pc EXCEPT ![r] =
                         IF IsSome(input[r].attachments) THEN "AttachInsert" ELSE "Commit"]
                   /\ UNCHANGED <<outcome, logged, storeVars>>
              ELSE /\ Throw(r, IF res = "norow" THEN "unexpected" ELSE "Error", <<>>)
                   /\ logged' = [logged EXCEPT ![r] = (res = "norow")]
                   /\ UNCHANGED locals
    /\ UNCHANGED <<input, lookup, puts, blobs, nextName, responded>>
    /\ UNCHANGED helpers

\* createEvent.ts 288-293 and 366-371: the values of the attachment rows, one
\* per upload, each named by a fresh ulid
AttachmentRow(eventId, mimetype, name, r) ==
    [eventId |-> eventId, mimeType |-> mimetype, name |-> name, by |-> r]

AttachmentRows(eventId, atts, firstName, r) ==
    [i \in 1..Len(atts) |-> AttachmentRow(eventId, atts[i], firstName + i - 1, r)]

\* mutant: on the recurring path the rows are owned by the base event
AttachInsertBaseOwned(r) ==
    /\ pc[r] = "AttachInsert"
    /\ LET atts == Val(input[r].attachments)
           owner == IF IsSome(locals[r].baseRecurringEvent)
                    THEN Val(locals[r].baseRecurringEvent)
                    ELSE Val(locals[r].createdEvent).id
           rows == AttachmentRows(owner, atts, nextName, r)
       IN  /\ nextName' = nextName + Len(atts)
           /\ \E ok \in BOOLEAN :
                 IF ok
                 THEN /\ tx' = [tx EXCEPT ![r].attachments = @ \cup SeqRange(rows)]
                      /\ locals' = [locals EXCEPT ![r].createdEventAttachments = rows]
                      /\ pc' = [pc EXCEPT ![r] = "PutObjects"]
                      /\ UNCHANGED <<outcome, storeVars>>
                 ELSE /\ Throw(r, "Error", <<>>)
                      /\ UNCHANGED locals
    /\ UNCHANGED <<input, lookup, puts, blobs, nextId, logged, responded>>
    /\ UNCHANGED helpers

\* createEvent.ts 285-295 and 363-373: the insert returns its rows or throws
AttachInsert(r) ==
    /\ pc[r] = "AttachInsert"
    /\ LET atts == Val(input[r].attachments)
           rows == AttachmentRows(Val(locals[r].createdEvent).id, atts, nextName, r)
       IN  /\ nextName' = nextName + Len(atts)
           /\ \E ok \in BOOLEAN :
                 IF ok
                 THEN /\ tx' = [tx EXCEPT ![r].attachments = @ \cup SeqRange(rows)]
                      /\ locals' = [locals EXCEPT ![r].createdEventAttachments = rows]
                      /\ pc' = [pc EXCEPT ![r] = "PutObjects"]
                      /\ UNCHANGED <<outcome, storeVars>>
                 ELSE /\ Throw(r, "Error", <<>>)
                      /\ UNCHANGED locals
    /\ UNCHANGED <<input, lookup, puts, blobs, nextId, logged, responded>>
    /\ UNCHANGED helpers

\* ctx.minio.bucketName, the configured bucket
bucketName == "talawa"

\* mutant: the object is written under a key of its own, not the row's name
PutCallOwnKey(rows, atts, index) ==
    [bucket |-> bucketName, key |-> rows[index].name + Len(rows), body |-> index,
     contentType |-> rows[index].mimeType, state |-> "inflight"]

\* mutant: every call reads the stream of the first upload
PutCallFirstStream(rows, atts, index) ==
    [bucket |-> bucketName, key |-> rows[index].name, body |-> 1,
     contentType |-> rows[index].mimeType,
     state |-> IF index <= Len(atts) THEN "inflight" ELSE "skipped"]

\* createEvent.ts 298-310 and 376-388: the putObject call made for row `index`,
\* if the upload of that index is defined; `body` is the position of the
\* upload whose createReadStream() the call reads
PutCall(rows, atts, index) ==
    [bucket |-> bucketName, key |-> rows[index].name, body |-> index,
     contentType |-> rows[index].mimeType,
     state |-> IF index <= Len(atts) THEN "inflight" ELSE "skipped"]

\* createEvent.ts 297-311 and 375-389: the map issues every putObject call
\* before Promise.all is awaited
PutObjects(r) ==
    /\ pc[r] = "PutObjects"
    /\ puts' = [puts EXCEPT ![r] =
          [i \in 1..Len(locals[r].createdEventAttachments) |->
              PutCall(locals[r].createdEventAttachments, Val(input[r].attachments), i)]]
    /\ pc' = [pc EXCEPT ![r] = "AwaitPuts"]
    /\ UNCHANGED <<input, lookup, locals, tx, outcome, storeVars, blobs, nextId,
                   nextName, logged, responded>>
    /\ UNCHANGED helpers

\* mutant: when a putObject call fails the objects its siblings stored are
\* removed
PutDoneCleansUp(r, i) ==
    /\ i \in DOMAIN puts[r]
    /\ puts[r][i].state = "inflight"
    /\ \E ok \in BOOLEAN :
          IF ok
          THEN /\ puts' = [puts EXCEPT ![r][i].state = "ok"]
               /\ blobs' = blobs \cup
                     {[key |-> puts[r][i].key, contentType |-> puts[r][i].contentType]}
          ELSE /\ puts' = [puts EXCEPT ![r][i].state = "failed"]
               /\ blobs' = {b \in blobs :
                               \A j \in DOMAIN puts[r] : b.key # puts[r][j].key}
    /\ UNCHANGED <<pc, input, lookup, locals, tx, outcome, storeVars, nextId,
                   nextName, logged, responded>>
    /\ UNCHANGED helpers

\* mutant: a putObject call that fails is issued once more
PutDoneRetry(r, i) ==
    /\ i \in DOMAIN puts[r]
    /\ puts[r][i].state = "inflight"
    /\ \E ok \in BOOLEAN :
          IF ok
          THEN /\ puts' = [puts EXCEPT ![r][i].state = "ok"]
               /\ blobs' = blobs \cup
                     {[key |-> puts[r][i].key, contentType |-> puts[r][i].contentType]}
          ELSE /\ puts' = [puts EXCEPT ![r] =
                     Append([@ EXCEPT ![i].state = "failed"], puts[r][i])]
               /\ UNCHANGED blobs
    /\ UNCHANGED <<pc, input, lookup, locals, tx, outcome, storeVars, nextId,
                   nextName, logged, responded>>
    /\ UNCHANGED helpers

\* the object store completes a putObject call: the object is stored, or the
\* call fails
PutDone(r, i) ==
    /\ i \in DOMAIN puts[r]
    /\ puts[r][i].state = "inflight"
    /\ \E ok \in BOOLEAN :
          IF ok
          THEN /\ puts' = [puts EXCEPT ![r][i].state = "ok"]
               /\ blobs' = blobs \cup
                     {[key |-> puts[r][i].key, contentType |-> puts[r][i].contentType]}
          ELSE /\ puts' = [puts EXCEPT ![r][i].state = "failed"]
               /\ UNCHANGED blobs
    /\ UNCHANGED <<pc, input, lookup, locals, tx, outcome, storeVars, nextId,
                   nextName, logged, responded>>
    /\ UNCHANGED helpers

\* Promise.all: rejected as soon as one call has failed, fulfilled when all
\* have succeeded
PutsRejected(ps) == \E i \in DOMAIN ps : ps[i].state = "failed"

\* mutant: the await goes on as soon as one call has succeeded
PutsFulfilledAny(ps) == \E i \in DOMAIN ps : ps[i].state \in {"ok", "skipped"}

PutsFulfilled(ps) == \A i \in DOMAIN ps : ps[i].state \in {"ok", "skipped"}

\* mutant: when a blob write has failed the writes are issued again
AwaitPutsRetry(r) ==
    /\ pc[r] = "AwaitPuts"
    /\ IF PutsRejected(puts[r])
       THEN /\ pc' = [pc EXCEPT ![r] = "PutObjects"]
            /\ UNCHANGED <<locals, outcome, tx, storeVars>>
       ELSE /\ PutsFulfilled(puts[r])
            /\ locals' = [locals EXCEPT ![r].returned =
                  Some(Returned(Val(locals[r].createdEvent),
                                locals[r].createdEventAttachments, locals[r].path,
                                locals[r].baseRecurringEvent,
                                locals[r].recurrenceRuleId))]
            /\ pc' = [pc EXCEPT ![r] = "Commit"]
            /\ UNCHANGED <<outcome, tx, storeVars>>
    /\ UNCHANGED <<input, lookup, puts, blobs, nextId, nextName, logged,
                   responded>>
    /\ UNCHANGED helpers

\* createEvent.ts 297-321 and 375-393: the await of Promise.all and the return
AwaitPuts(r) ==
    /\ pc[r] = "AwaitPuts"
    /\ IF PutsRejected(puts[r])
       THEN /\ Throw(r, "Error", <<>>)
            /\ UNCHANGED locals
       ELSE /\ PutsFulfilled(puts[r])
            /\ locals' = [locals EXCEPT ![r].returned =
                  Some(Returned(Val(locals[r].createdEvent),
                                locals[r].createdEventAttachments, locals[r].path,
                                locals[r].baseRecurringEvent,
                                locals[r].recurrenceRuleId))]
            /\ pc' = [pc EXCEPT ![r] = "Commit"]
            /\ UNCHANGED <<outcome, tx, storeVars>>
    /\ UNCHANGED <<input, lookup, puts, blobs, nextId, nextName, logged,
                   responded>>
    /\ UNCHANGED helpers

\* createEvent.ts 170 and 399: the callback has returned; the transaction
\* commits and the resolver returns the callback's value, or the commit fails
Commit(r) ==
    /\ pc[r] = "Commit"
    /\ \E ok \in BOOLEAN :
          IF ok
          THEN /\ events' = events \cup tx[r].events
               /\ rules' = rules \cup tx[r].rules
               /\ attachments' = attachments \cup tx[r].attachments
               /\ tx' = [tx EXCEPT ![r].state = "committed"]
               /\ pc' = [pc EXCEPT ![r] = "Committed"]
               /\ outcome' = [outcome EXCEPT ![r] =
                     [code |-> "ok", issues |-> <<>>, data |-> locals[r].returned]]
          ELSE Throw(r, "Error", <<>>)
    /\ UNCHANGED <<input, lookup, locals, puts, blobs, nextId, nextName, logged,
                   responded>>
    /\ UNCHANGED helpers

\* the response or the error is delivered and the resolver's frame (its
\* arguments and local variables) is gone
Respond(r) ==
    /\ pc[r] \in Ended
    /\ r \notin responded
    /\ responded' = responded \cup {r}
    /\ input' = [input EXCEPT ![r] = NoInput]
    /\ lookup' = [lookup EXCEPT ![r] = NoLookup]
    /\ locals' = [locals EXCEPT ![r] = NoLocals]
    /\ UNCHANGED <<pc, tx, outcome, storeVars, puts, blobs, nextId, nextName, logged>>
    /\ UNCHANGED helpers

Next ==
    \E r \in Sequential :
        \/ Start(r)
        \/ AuthCheck(r)
        \/ ParseArgs(r)
        \/ Lookup(r)
        \/ ResourceCheck(r)
        \/ TxBegin(r)
        \/ BaseInsert(r)
        \/ RuleInsert(r)
        \/ BackLink(r)
        \/ InstanceInsert(r)
        \/ EventInsert(r)
        \/ AttachInsert(r)
        \/ PutObjects(r)
        \/ \E i \in 1..(MaxAtt + 1) : PutDone(r, i)
        \/ AwaitPuts(r)
        \/ Commit(r)
        \/ Respond(r)

Spec == Init /\ [][Next]_vars

\* a request arrives while the other may be anywhere in its resolver
StartConcurrent(r) ==
    /\ pc[r] = "idle"
    /\ \E a \in BOOLEAN : input' = [input EXCEPT ![r].isAuthenticated = a]
    /\ pc' = [pc EXCEPT ![r] = "AuthCheck"]
    /\ UNCHANGED <<lookup, locals, tx, outcome, storeVars, puts, blobs, nextId,
                   nextName, logged, responded>>
    /\ UNCHANGED helpers

\* the steps of two concurrent requests, interleaved in every order
NextConcurrent ==
    \E r \in Concurrent :
        \/ StartConcurrent(r)
        \/ AuthCheck(r)
        \/ ParseArgs(r)
        \/ Lookup(r)
        \/ ResourceCheck(r)
        \/ TxBegin(r)
        \/ BaseInsert(r)
        \/ RuleInsert(r)
        \/ BackLink(r)
        \/ InstanceInsert(r)
        \/ EventInsert(r)
        \/ AttachInsert(r)
        \/ PutObjects(r)
        \/ \E i \in 1..(MaxAtt + 1) : PutDone(r, i)
        \/ AwaitPuts(r)
        \/ Commit(r)
        \/ Respond(r)

SpecConcurrent == Init /\ [][NextConcurrent]_vars

\* a step of request r that it takes by itself or that it awaits: a check, a
\* query, an insert, the update, a blob write completing, the commit
Awaited(r) ==
    \/ AuthCheck(r)
    \/ ParseArgs(r)
    \/ Lookup(r)
    \/ ResourceCheck(r)
    \/ TxBegin(r)
    \/ BaseInsert(r)
    \/ RuleInsert(r)
    \/ BackLink(r)
    \/ InstanceInsert(r)
    \/ EventInsert(r)
    \/ AttachInsert(r)
    \/ PutObjects(r)
    \/ \E i \in 1..(MaxAtt + 1) : PutDone(r, i)
    \/ AwaitPuts(r)
    \/ Commit(r)

\* the request followed to its end
Followed == {"r2"}

NextFollowed ==
    \E r \in Followed :
        \/ Start(r)
        \/ AuthCheck(r)
        \/ ParseArgs(r)
        \/ Lookup(r)
        \/ ResourceCheck(r)
        \/ TxBegin(r)
        \/ BaseInsert(r)
        \/ RuleInsert(r)
        \/ BackLink(r)
        \/ InstanceInsert(r)
        \/ EventInsert(r)
        \/ AttachInsert(r)
        \/ PutObjects(r)
        \/ \E i \in 1..(MaxAtt + 1) : PutDone(r, i)
        \/ AwaitPuts(r)
        \/ Commit(r)
        \/ Respond(r)

\* one request, each of whose awaited operations eventually returns or fails
SpecLive ==
    /\ Init
    /\ [][NextFollowed]_vars
    /\ \A r \in Followed : WF_vars(Awaited(r))

(***************************************************************************)
(* The functions of recurringEventHelpers.ts called on their own: one      *)
(* argument, called repeatedly while the wall clock advances.              *)
(***************************************************************************)
\* a RecurrenceInput (recurringEventHelpers.ts 53-62); recurrenceStartDate is
\* optional, and byDay may hold a code WEEKDAY_MAP does not have
HelperRecurrences ==
    {[frequency |-> f, interval |-> Some(n), count |-> c,
      recurrenceEndDate |-> u, byDay |-> bd, byMonth |-> None,
      byMonthDay |-> bmd, recurrenceStartDate |-> s] :
        f \in {"DAILY", "WEEKLY"}, n \in {1, 2}, c \in {None, Some(2)},
        u \in {None, Some(AtDay(MaxStart + 2, 0))},
        bd \in {None, Some(<<"MO", "WE">>), Some(<<"MO", "XX">>)},
        bmd \in {None, Some(<<2, 3>>)},
        s \in {None, Some(AtDay(0, 1))} \cup {Some(AtDay(d, 0)) : d \in 0..MaxStart}}
    \cup
    {[frequency |-> "DAILY", interval |-> n, count |-> c,
      recurrenceEndDate |-> None, byDay |-> bd, byMonth |-> bm,
      byMonthDay |-> Some(<<>>), recurrenceStartDate |-> Some(AtDay(0, 0))] :
        n \in {None, Some(0)}, c \in {Some(0), Some(2)},
        bd \in {None, Some(<<>>)}, bm \in {Some(<<>>), Some(<<1>>)}}

\* the wall clock at the first direct call: 2023-01-01, a year before day 0
FirstCall == AtDay(YearStart(2023), 0)

InitHelpers ==
    /\ InitResolver
    /\ \E rec \in HelperRecurrences :
          helpers = [NoHelperCalls EXCEPT !.recurrence = Some(rec),
                                          !.now = FirstCall]

\* the wall clock advances between two calls
Tick ==
    /\ helpers.now < FirstCall + MaxClock
    /\ helpers' = [helpers EXCEPT !.now = @ + 1]
    /\ UNCHANGED resolverVars

\* recurringEventHelpers.ts 67-111, called with the same argument again
CallGenerateRecurrenceRuleString ==
    /\ Len(helpers.ruleStrings) < MaxCalls
    /\ helpers' = [helpers EXCEPT !.ruleStrings =
          Append(@, generateRecurrenceRuleString(Val(helpers.recurrence),
                                                 helpers.now))]
    /\ UNCHANGED resolverVars

\* the startDate of a direct call of getRecurringInstanceDates: the
\* recurrenceStartDate of the argument if it has one, or day 0
HelperStartDates(rec) ==
    IF IsSome(rec.recurrenceStartDate)
    THEN {Val(rec.recurrenceStartDate), AtDay(0, 0)} ELSE {AtDay(0, 0)}

\* its endDate: none, the recurrenceEndDate of the argument if it has one, or
\* a week after the latest start
HelperEndDates(rec) ==
    {None, rec.recurrenceEndDate, Some(AtDay(MaxStart + 7, 0))}

\* its queryEndDate: none, or three days after the latest start
HelperQueryEndDates == {None, Some(AtDay(MaxStart + 3, 0))}

\* recurringEventHelpers.ts 116-131, called with the rule string the last
\* call of generateRecurrenceRuleString returned; the calls made are those
\* for a rule with a recurrenceStartDate
CallGetRecurringInstanceDates ==
    /\ IsSome(Val(helpers.recurrence).recurrenceStartDate)
    /\ helpers.ruleStrings # <<>>
    /\ helpers.ruleStrings[Len(helpers.ruleStrings)] # TypeError
    /\ \E startDate \in HelperStartDates(Val(helpers.recurrence)),
          endDate \in HelperEndDates(Val(helpers.recurrence)),
          queryEndDate \in HelperQueryEndDates :
          LET rRuleString == helpers.ruleStrings[Len(helpers.ruleStrings)]
          IN  helpers' = [helpers EXCEPT !.expansion =
                 Some([rRuleString |-> rRuleString, startDate |-> startDate,
                       endDate |-> endDate, queryEndDate |-> queryEndDate,
                       now |-> helpers.now,
                       dates |-> getRecurringInstanceDates(
                                    rRuleString, startDate, endDate,
                                    queryEndDate, helpers.now)])]
    /\ UNCHANGED resolverVars

NextHelpers ==
    \/ Tick
    \/ CallGenerateRecurrenceRuleString
    \/ CallGetRecurringInstanceDates

SpecHelpers == InitHelpers /\ [][NextHelpers]_vars

(***************************************************************************)
(* Properties.                                                             *)
(***************************************************************************)
EventsBy(r) == {e \in events : e.by = r}

RulesBy(r) == {x \in rules : x.by = r}

AttachmentsBy(r) == {a \in attachments : a.by = r}

\* the queries of request r have run and their results have been checked
Checked(r) == lookup[r].done /\ pc[r] # "ResourceCheck"

\* the caller's membership role in the organization the request names
MembershipIn(r) == lookup[r].memberships[input[r].organizationId]

Unauthorized == "unauthorized_action_on_arguments_associated_resources"

NotFound == "arguments_associated_resources_not_found"

\* C1: when the user record and the target organization exist, a caller who
\* is not a global administrator and has no membership or a non-administrator
\* membership in the target organization (whatever their membership in another
\* organization) is rejected with the Unauthorized code, and a global
\* administrator is accepted with or without a membership.
C1_AuthorizationBoundary ==
    \A r \in Requests :
        (Checked(r) /\ IsSome(lookup[r].currentUser)
                    /\ input[r].organizationId \in organizationsTable)
        => /\ (Val(lookup[r].currentUser) # "administrator"
               /\ MembershipIn(r) # Some("administrator"))
              => (pc[r] = "Aborted" /\ outcome[r].code = Unauthorized)
           /\ Val(lookup[r].currentUser) = "administrator"
              => (pc[r] = "TxBegin" /\ outcome[r].code = "none")

\* a caller who administers only the other organization has been rejected
C1_Witness ==
    \E r \in Requests :
        /\ Checked(r)
        /\ lookup[r].currentUser = Some("regular")
        /\ input[r].organizationId = "o1"
        /\ lookup[r].memberships["o1"] = None
        /\ lookup[r].memberships["o2"] = Some("administrator")
        /\ pc[r] = "Aborted"
        /\ outcome[r].code = Unauthorized

\* the session check of request r has run and its frame is still there
AuthChecked(r) == pc[r] \notin {"idle", "AuthCheck"} /\ r \notin responded

\* C2: a request without an authenticated session ends with the
\* Unauthenticated code, and so does a request whose session is authenticated
\* but whose user record the query does not find.
C2_Unauthenticated ==
    \A r \in Requests :
        /\ (AuthChecked(r) /\ ~input[r].isAuthenticated)
           => (pc[r] = "Aborted" /\ outcome[r].code = "unauthenticated"
               /\ ~lookup[r].done)
        /\ (Checked(r) /\ ~IsSome(lookup[r].currentUser))
           => (pc[r] = "Aborted" /\ outcome[r].code = "unauthenticated"
               /\ input[r].isAuthenticated)

\* an authenticated request whose user record and organization are both
\* missing has ended unauthenticated
C2_Witness ==
    \E r \in Requests :
        /\ Checked(r)
        /\ input[r].isAuthenticated
        /\ ~IsSome(lookup[r].currentUser)
        /\ input[r].organizationId \notin organizationsTable
        /\ outcome[r].code = "unauthenticated"

\* C3: when the user record exists and input.organizationId names no
\* organization, the request ends with the ResourceNotFound code addressed at
\* input.organizationId, whatever the caller's role.
C3_OrganizationNotFound ==
    \A r \in Requests :
        (Checked(r) /\ IsSome(lookup[r].currentUser)
                    /\ input[r].organizationId \notin organizationsTable)
        => /\ pc[r] = "Aborted"
           /\ outcome[r].code = NotFound
           /\ outcome[r].issues = << <<"input", "organizationId">> >>

\* a global administrator naming a missing organization has been refused
C3_Witness ==
    \E r \in Requests :
        /\ Checked(r)
        /\ lookup[r].currentUser = Some("administrator")
        /\ input[r].organizationId = "o3"
        /\ outcome[r].code = NotFound

CheckErrors == {"unauthenticated", "invalid_arguments", NotFound, Unauthorized}

\* C4: a request that ends with an authorization or validation error has
\* opened no transaction, written no row and issued no blob write.
C4_ErrorsBeforeMutation ==
    \A r \in Requests :
        outcome[r].code \in CheckErrors
        => /\ pc[r] = "Aborted"
           /\ tx[r] = NoTx
           /\ puts[r] = <<>>
           /\ EventsBy(r) = {} /\ RulesBy(r) = {} /\ AttachmentsBy(r) = {}
           /\ \A b \in blobs : \E q \in Requests \ {r} :
                 \E i \in DOMAIN puts[q] : puts[q][i].key = b.key

\* a request was refused as unauthorized while the store holds the rows and
\* the blob of the other request
C4_Witness ==
    \E r \in Requests :
        /\ outcome[r].code = Unauthorized
        /\ events # {} /\ attachments # {} /\ blobs # {}

\* C5: the rows a request inserts are committed together or not at all: the
\* store holds no row of a request that has not committed (whether it is still
\* running or has failed at any step), and every row of a committed request.
C5_AllOrNothing ==
    \A r \in Requests :
        /\ pc[r] # "Committed"
           => (EventsBy(r) = {} /\ RulesBy(r) = {} /\ AttachmentsBy(r) = {})
        /\ pc[r] = "Committed"
           => /\ tx[r].state = "committed"
              /\ EventsBy(r) = tx[r].events
              /\ RulesBy(r) = tx[r].rules
              /\ AttachmentsBy(r) = tx[r].attachments

\* a recurring request failed at the first-instance insert, after its base
\* event and rule had been inserted
C5_Witness ==
    \E r \in Requests :
        /\ pc[r] = "Aborted"
        /\ tx[r].state = "rolledback"
        /\ IsSome(locals[r].recurrenceRuleId)
        /\ ~IsSome(locals[r].createdEvent)
        /\ Len(locals[r].instanceDates) > 0

\* request r is on the recurring path and its frame is still there
Recurring(r) == IsSome(input[r].recurrence) /\ r \notin responded

\* C6: a committed recurring request whose expansion yields no instant has
\* persisted exactly one base Event row and one RecurrenceRule row, and no
\* other Event row.
C6_ZeroInstantsBaseAndRuleOnly ==
    \A r \in Requests :
        (pc[r] = "Committed" /\ Recurring(r) /\ Len(locals[r].instanceDates) = 0)
        => /\ Cardinality(RulesBy(r)) = 1
           /\ Cardinality(EventsBy(r)) = 1
           /\ \A e \in EventsBy(r) : e.isBaseRecurringEvent

\* C7: a committed recurring request has created exactly one base Event row
\* and exactly one RecurrenceRule row, each referring to the other.
C7_BaseAndRuleLinked ==
    \A r \in Requests :
        (pc[r] = "Committed" /\ Recurring(r))
        => LET bases == {e \in EventsBy(r) : e.isBaseRecurringEvent}
           IN  /\ Cardinality(bases) = 1
               /\ Cardinality(RulesBy(r)) = 1
               /\ \A b \in bases, x \in RulesBy(r) :
                     /\ x.baseRecurringEventId = b.id
                     /\ b.recurrenceRuleId = Some(x.id)
                     /\ b.isRecurring

\* a recurring request committed while the store also holds the series of the
\* other request
C7_Witness ==
    \E r \in Requests :
        /\ pc[r] = "Committed" /\ Recurring(r)
        /\ \E q \in Requests \ {r} : RulesBy(q) # {}

\* the Event rows request r has written: in its transaction while it is open,
\* in the store once it has committed
WrittenEvents(r) == IF pc[r] = "Committed" THEN EventsBy(r) ELSE tx[r].events

\* C8: once the first-instance insert of a recurring request whose expansion
\* is not empty has returned, the request has written exactly one instance
\* Event row, starting at the first expanded instant and lasting the authored
\* endAt - startAt; the same holds of the store after the commit.
C8_FirstInstance ==
    \A r \in Requests :
        (/\ pc[r] \in {"AttachInsert", "PutObjects", "AwaitPuts", "Commit", "Committed"}
         /\ Recurring(r) /\ Len(locals[r].instanceDates) > 0)
        => LET instances == {e \in WrittenEvents(r) : ~e.isBaseRecurringEvent}
           IN  /\ Cardinality(instances) = 1
               /\ \A e \in instances :
                     /\ e.startAt = locals[r].instanceDates[1]
                     /\ e.endAt - e.startAt = endAt(input[r]) - input[r].startAt
                     /\ e.isRecurring

\* a series authored on a Tuesday for Mondays and Wednesdays committed: its
\* first instance starts a day after the authored start and lasts a day
C8_Witness ==
    \E r \in Requests :
        /\ pc[r] = "Committed" /\ Recurring(r)
        /\ input[r].duration = AtDay(1, 0)
        /\ \E e \in EventsBy(r) :
              ~e.isBaseRecurringEvent /\ e.startAt = input[r].startAt + AtDay(1, 0)

\* C9: a committed request without a recurrence has created exactly one Event
\* row, not recurring, not a base event and without references to a base
\* event or a rule, and no RecurrenceRule row.
C9_SimpleEvent ==
    \A r \in Requests :
        (pc[r] = "Committed" /\ r \notin responded /\ ~IsSome(input[r].recurrence))
        => /\ Cardinality(EventsBy(r)) = 1
           /\ RulesBy(r) = {}
           /\ \A e \in EventsBy(r) :
                 /\ ~e.isRecurring
                 /\ ~e.isBaseRecurringEvent
                 /\ e.baseRecurringEventId = None
                 /\ e.recurrenceRuleId = None

\* a request without a recurrence committed with two attachments
C9_Witness ==
    \E r \in Requests :
        /\ pc[r] = "Committed" /\ r \notin responded
        /\ ~IsSome(input[r].recurrence)
        /\ Cardinality(AttachmentsBy(r)) = 2

\* request r ended because one of its blob writes failed
BlobWriteFailed(r) == pc[r] = "Aborted" /\ PutsRejected(puts[r])

\* C10 as stated: when a blob write fails the rows the request inserted stay
\* in the store.
C10_RowsSurviveBlobFailure ==
    \A r \in Requests :
        BlobWriteFailed(r) => (EventsBy(r) # {} /\ AttachmentsBy(r) # {})

\* C10, amended: when a blob write fails the request is reported as failed and
\* the rows it inserted are rolled back with its transaction: neither the
\* store nor the transaction holds any of them.
C10_BlobFailureRollsBack ==
    \A r \in Requests :
        BlobWriteFailed(r)
        => /\ outcome[r].code = "Error"
           /\ EventsBy(r) = {} /\ RulesBy(r) = {} /\ AttachmentsBy(r) = {}
           /\ tx[r] = [NoTx EXCEPT !.state = "rolledback"]

\* of two blob writes one failed and the other stored its object: the request
\* failed and the object has no Attachment row
C10_Witness ==
    \E r \in Requests :
        /\ BlobWriteFailed(r)
        /\ \E i \in DOMAIN puts[r] :
              /\ puts[r][i].state = "ok"
              /\ \E b \in blobs : b.key = puts[r][i].key
              /\ \A a \in attachments : a.name # puts[r][i].key

\* C11: in every reachable state, whatever blob writes or commits failed
\* before, every committed Attachment row has an object in the store whose
\* key is the row's name.
C11_AttachmentRowsHaveBlobs ==
    \A a \in attachments : \E b \in blobs : b.key = a.name

\* one request committed Attachment rows, the other failed on a blob write
C11_Witness ==
    /\ attachments # {}
    /\ \E r \in Requests : BlobWriteFailed(r)

\* C12: a request issues its blob writes only for Attachment rows its
\* transaction already holds, and inserts Attachment rows only for an Event
\* row its transaction already holds; the writes are all issued before the
\* request waits for any of them.
C12_RowsBeforeBlobWrites ==
    [][\A r \in Requests :
          /\ (puts[r] = <<>> /\ puts'[r] # <<>>)
             => \A i \in DOMAIN puts'[r] :
                   /\ puts'[r][i].state \notin {"ok", "failed"}
                   /\ \E a \in tx[r].attachments : a.name = puts'[r][i].key
          /\ \A a \in tx'[r].attachments \ tx[r].attachments :
                \E e \in tx[r].events : e.id = a.eventId]_vars

\* of two blob writes the second has stored its object while the first is
\* still in flight; their rows and the owning Event row are in the transaction
C12_Witness ==
    \E r \in Requests :
        /\ pc[r] = "AwaitPuts"
        /\ Len(puts[r]) = 2
        /\ puts[r][1].state = "inflight"
        /\ puts[r][2].state = "ok"
        /\ \A i \in DOMAIN puts[r] :
              \E a \in tx[r].attachments :
                 /\ a.name = puts[r][i].key
                 /\ \E e \in tx[r].events : e.id = a.eventId

\* C13 as stated: a request that has ended (committed, or failed and rolled
\* back) has no blob write in flight.
C13_NoBlobWriteInFlightWhenDone ==
    \A r \in Requests :
        pc[r] \in Ended => \A i \in DOMAIN puts[r] : puts[r][i].state # "inflight"

\* the rows request r committed: its base event, its instance, its
\* standalone event
BaseEventsBy(r) == {e \in EventsBy(r) : e.isBaseRecurringEvent}

InstancesBy(r) == {e \in EventsBy(r) : e.isRecurring /\ ~e.isBaseRecurringEvent}

StandaloneBy(r) == {e \in EventsBy(r) : ~e.isRecurring}

Disallowed(r) ==
    IF IsSome(input[r].attachments)
    THEN {i \in 1..Len(Val(input[r].attachments)) :
             Val(input[r].attachments)[i] \notin eventAttachmentMimeTypeEnum}
    ELSE {}

\* the arguments of request r have been parsed and its frame is still live
Parsed(r) == pc[r] \notin {"idle", "AuthCheck", "ParseArgs"} /\ r \notin responded

\* C15: a request whose attachment list holds disallowed mimetypes ends with
\* invalid_arguments carrying one issue per disallowed attachment, addressed
\* at ["input", "attachments", index], and none for the allowed ones; it has
\* opened no transaction, written no row and issued no blob write.
C15_MimeTypeIssues ==
    \A r \in Requests :
        (Parsed(r) /\ input[r].isAuthenticated /\ Disallowed(r) # {})
        => /\ pc[r] = "Aborted"
           /\ outcome[r].code = "invalid_arguments"
           /\ Len(outcome[r].issues) = Cardinality(Disallowed(r))
           /\ SeqRange(outcome[r].issues) =
                 {<<"input", "attachments", i - 1>> : i \in Disallowed(r)}
           /\ tx[r] = NoTx
           /\ EventsBy(r) = {} /\ RulesBy(r) = {} /\ AttachmentsBy(r) = {}
           /\ puts[r] = <<>>

\* of two attachments the second alone is disallowed: one issue, at index 1
C15_Witness ==
    \E r \in Requests :
        /\ Parsed(r)
        /\ Disallowed(r) = {2}
        /\ Len(Val(input[r].attachments)) = 2
        /\ outcome[r].issues = << <<"input", "attachments", 1>> >>

\* C16: in every reachable state every committed Event row that is recurring
\* and not a base event carries both references, and they name a committed
\* base Event row and a committed RecurrenceRule row that name each other.
C16_InstanceReferences ==
    \A e \in events :
        (e.isRecurring /\ ~e.isBaseRecurringEvent)
        => /\ IsSome(e.baseRecurringEventId)
           /\ IsSome(e.recurrenceRuleId)
           /\ \E b \in events, x \in rules :
                 /\ b.isBaseRecurringEvent
                 /\ b.id = Val(e.baseRecurringEventId)
                 /\ x.id = Val(e.recurrenceRuleId)
                 /\ b.recurrenceRuleId = Some(x.id)
                 /\ x.baseRecurringEventId = b.id

\* both requests have committed an instance
C16_Witness ==
    \A r \in Sequential : InstancesBy(r) # {}

\* every Event row there is: committed, or written by a transaction
AllEventRows == events \cup UNION {tx[r].events : r \in Requests}

\* C17: in every reachable state no base Event row, committed or written in
\* a transaction, before or after the back-link update, carries a
\* baseRecurringEventId.
C17_BaseHasNoBaseReference ==
    \A e \in AllEventRows :
        e.isBaseRecurringEvent => ~IsSome(e.baseRecurringEventId)

\* a committed base row, and a base row in a transaction just after the
\* back-link update
C17_Witness ==
    /\ \E e \in events : e.isBaseRecurringEvent /\ IsSome(e.recurrenceRuleId)
    /\ \E r \in Requests :
          /\ pc[r] \in {"InstanceInsert", "EventInsert"}
          /\ \E e \in tx[r].events :
                e.isBaseRecurringEvent /\ IsSome(e.recurrenceRuleId)

\* every RecurrenceRule row there is: committed, or written by a transaction
AllRuleRows == rules \cup UNION {tx[r].rules : r \in Requests}

\* C18: every RecurrenceRule row has latestInstanceDate >= recurrenceStartDate.
C18_LatestInstanceNotBeforeStart ==
    \A x \in AllRuleRows : x.latestInstanceDate >= x.recurrenceStartDate

\* a rule with a defaulted bound and no instant, its start after day 0, and a
\* rule with an explicit bound whose last instant is after its start
C18_Witness ==
    /\ \E x \in AllRuleRows :
          /\ ~IsSome(x.recurrenceEndDate)
          /\ x.recurrenceStartDate > 0
          /\ x.latestInstanceDate = x.recurrenceStartDate
          /\ \E r \in Requests :
                x.by = r /\ pc[r] = "BackLink" /\ locals[r].instanceDates = <<>>
    /\ \E x \in AllRuleRows :
          /\ IsSome(x.recurrenceEndDate)
          /\ x.latestInstanceDate > x.recurrenceStartDate

\* the input of a request with the recurrenceEndDate of its recurrence removed
WithoutRecurrenceEndDate(in) ==
    [in EXCEPT !.recurrence = Some([Val(@) EXCEPT !.recurrenceEndDate = None])]

\* the instants createEvent expands for input `in` at wall clock `now`
\* (createEvent.ts 205-223)
InstanceDatesOf(in, now) ==
    getRecurringInstanceDates(generateRecurrenceRuleString(EncoderInput(in), now),
                              in.startAt,
                              Some(ExpansionBound(Val(in.recurrence), now)),
                              None, now)

\* the rule of request r has been created and its frame is still live
Expanded(r) == IsSome(locals[r].recurrenceRuleString) /\ r \notin responded

\* C19 as stated: when the recurrence sets count, the expanded instants are
\* those the same request would get at the same wall clock without its
\* recurrenceEndDate.
C19_CountIgnoresRecurrenceEndDate ==
    \A r \in Requests :
        (Expanded(r) /\ IsSome(Val(input[r].recurrence).count))
        => locals[r].instanceDates =
              InstanceDatesOf(WithoutRecurrenceEndDate(input[r]), Val(locals[r].clock))

\* C20 as stated: the calls of generateRecurrenceRuleString with one and the
\* same argument all return the same rule string, whatever the wall clock of
\* each call and whether or not the argument has a recurrenceStartDate.
C20_EncodeTimeIndependent ==
    \A i, j \in DOMAIN helpers.ruleStrings :
        helpers.ruleStrings[i] = helpers.ruleStrings[j]

\* the two-letter code of the weekday of day d
CodeOfDay(d) == <<"MO", "TU", "WE", "TH", "FR", "SA", "SU">>[(d % 7) + 1]

\* the instant t satisfies the frequency, interval, day-of-week and month-day
\* constraints of the argument `rec`, anchored at its recurrenceStartDate:
\* it is a whole number of days after the start, in a day, or a week
\* beginning on Monday, that is a multiple of the interval away from the
\* start's, on one of the days of the week and of the month listed; a weekly
\* pattern that lists neither keeps the start's day of the week
Satisfies(rec, t) ==
    LET start == Val(rec.recurrenceStartDate)
        n == IF IsSome(rec.interval) THEN Val(rec.interval) ELSE 1
        d == DayOf(t)
        d0 == DayOf(start)
    IN  /\ t >= start
        /\ MillisOf(t) = MillisOf(start)
        /\ IF rec.frequency = "DAILY" THEN (d - d0) % n = 0
           ELSE (((d - (d % 7)) - (d0 - (d0 % 7))) \div 7) % n = 0
        /\ IsSome(rec.byDay) => CodeOfDay(d) \in SeqRange(Val(rec.byDay))
        /\ IsSome(rec.byMonthDay) => MonthDayOf(d) \in SeqRange(Val(rec.byMonthDay))
        /\ (rec.frequency = "WEEKLY" /\ ~IsSome(rec.byDay) /\ ~IsSome(rec.byMonthDay))
           => d % 7 = d0 % 7

\* the instants of [start, end] that satisfy the constraints of `rec`, the
\* first `count` of them when the argument sets count
Expected(rec, end) ==
    LET all == {t \in Val(rec.recurrenceStartDate)..end : Satisfies(rec, t)}
    IN  IF IsSome(rec.count)
        THEN {t \in all : Cardinality({u \in all : u < t}) < Val(rec.count)}
        ELSE all

\* the last direct call of getRecurringInstanceDates was the round trip
\* expand(encode(params), params.start, params.end)
RoundTrip ==
    /\ IsSome(helpers.expansion)
    /\ IsSome(Val(helpers.recurrence).recurrenceEndDate)
    /\ Val(helpers.expansion).startDate = Val(Val(helpers.recurrence).recurrenceStartDate)
    /\ Val(helpers.expansion).endDate = Val(helpers.recurrence).recurrenceEndDate

\* C21 as stated: the round trip returns exactly the instants of [start, end]
\* that satisfy the constraints of the parameters, anchored at start.
C21_RoundTrip ==
    RoundTrip
    => SeqRange(Val(helpers.expansion).dates) =
          Expected(Val(helpers.recurrence),
                   Val(Val(helpers.recurrence).recurrenceEndDate))

\* the rule row request r has written, in its transaction or committed
RuleRowsOf(r) == {x \in AllRuleRows : x.by = r}

\* the instance row request r has written, in its transaction or committed
InstanceRowsOf(r) ==
    {e \in AllEventRows : e.by = r /\ e.isRecurring /\ ~e.isBaseRecurringEvent}

\* request r is the scenario: weekly on MO, WE, FR from Monday 2024-01-01,
\* six occurrences, and its expansion bound is on or after 2024-01-12
Scenario(r) ==
    /\ Expanded(r)
    /\ pc[r] # "Aborted"
    /\ input[r].recurrence =
          Some(Recurrence("WEEKLY", Some(6), None, Some(<<"MO", "WE", "FR">>)))
    /\ input[r].startAt = AtDay(0, 0)
    /\ ExpansionBound(Val(input[r].recurrence), Val(locals[r].clock)) >= AtDay(11, 0)

\* C22: the scenario expands to January 1, 3, 5, 8, 10 and 12 of 2024 in this
\* order; the rule row has latestInstanceDate January 12 and the first
\* instance, once inserted, starts on January 1.
C22_WeeklyScenario ==
    \A r \in Requests :
        Scenario(r)
        => /\ locals[r].instanceDates =
                 <<AtDay(0, 0), AtDay(2, 0), AtDay(4, 0),
                   AtDay(7, 0), AtDay(9, 0), AtDay(11, 0)>>
           /\ \A x \in RuleRowsOf(r) : x.latestInstanceDate = AtDay(11, 0)
           /\ RuleRowsOf(r) # {}
           /\ \A e \in InstanceRowsOf(r) : e.startAt = AtDay(0, 0)
           /\ pc[r] = "Committed" => InstanceRowsOf(r) # {}

\* the scenario has committed its first instance
C22_Witness ==
    \E r \in Requests :
        /\ Scenario(r)
        /\ pc[r] = "Committed"
        /\ \E e \in InstancesBy(r) : e.startAt = AtDay(0, 0)
        /\ \E x \in RulesBy(r) : x.latestInstanceDate = AtDay(11, 0)

\* the effective end date of the recorded call of getRecurringInstanceDates
EffectiveEndOf(x) == EffectiveEndDate(x.endDate, x.queryEndDate, x.now)

\* the occurrences of the rule parsed from the recorded rule string, up to
\* the effective end date of the call
OccurrencesOf(x) == Occurrences(rrulestr(x.rRuleString), EffectiveEndOf(x))

\* C23: every instant getRecurringInstanceDates returns lies between
\* startDate and the effective end date, both included, and an occurrence of
\* the rule exactly on either bound of a non-empty window is returned.
C23_InclusiveBounds ==
    IsSome(helpers.expansion)
    => LET x == Val(helpers.expansion)
           returned == SeqRange(x.dates)
       IN  /\ \A t \in returned : x.startDate <= t /\ t <= EffectiveEndOf(x)
           /\ x.startDate <= EffectiveEndOf(x)
              => \A t \in OccurrencesOf(x) \cap {x.startDate, EffectiveEndOf(x)} :
                    t \in returned

\* a call whose rule has an occurrence on each bound, and both are returned
C23_Witness ==
    /\ IsSome(helpers.expansion)
    /\ LET x == Val(helpers.expansion)
       IN  /\ x.startDate < EffectiveEndOf(x)
           /\ {x.startDate, EffectiveEndOf(x)} \subseteq OccurrencesOf(x)
           /\ {x.startDate, EffectiveEndOf(x)} \subseteq SeqRange(x.dates)

\* the error codes of the taxonomy
Taxonomy == CheckErrors \cup {"unexpected"}

\* C24: every request that fails ends with an error code of the taxonomy; a
\* rule insert or a first-instance insert that returns no row is among the
\* failures.
C24_FailureHasTaxonomyCode ==
    \A r \in Requests : pc[r] = "Aborted" => outcome[r].code \in Taxonomy

\* C25: a request that fails with the unexpected code, which it does when the
\* base event insert or the simple event insert returns no row, has had its
\* transaction rolled back and an error logged.
C25_UnexpectedIsAbortedAndLogged ==
    \A r \in Requests :
        (pc[r] = "Aborted" /\ outcome[r].code = "unexpected")
        => (tx[r].state = "rolledback" /\ logged[r])

\* the byDay list of the argument of the direct calls, when it is given and
\* not empty
ByDayOfCalls == ListOption(Val(helpers.recurrence).byDay)

\* the byDay list has a code that is not a weekday code
HasUnknownCode(byDay) ==
    \E i \in 1..Len(byDay) :
        byDay[i] \notin {"MO", "TU", "WE", "TH", "FR", "SA", "SU"}

\* C26: generateRecurrenceRuleString yields an error instead of a rule string
\* when byDay has a code outside MO, TU, WE, TH, FR, SA, SU; otherwise it
\* yields a rule string whose weekdays are those of the codes, MO = 0, TU = 1,
\* WE = 2, TH = 3, FR = 4, SA = 5, SU = 6.
C26_UnknownCodeFailsEncoding ==
    \A i \in 1..Len(helpers.ruleStrings) :
        IsSome(ByDayOfCalls)
        => LET byDay == Val(ByDayOfCalls)
               ordinal == [MO |-> 0, TU |-> 1, WE |-> 2, TH |-> 3,
                           FR |-> 4, SA |-> 5, SU |-> 6]
           IN  IF HasUnknownCode(byDay)
               THEN helpers.ruleStrings[i] = TypeError
               ELSE /\ helpers.ruleStrings[i] # TypeError
                    /\ rrulestr(helpers.ruleStrings[i]).byweekday =
                          {ordinal[byDay[k]] : k \in 1..Len(byDay)}

\* a call with the codes MO and XX has failed
C26_Witness ==
    /\ ByDayOfCalls = Some(<<"MO", "XX">>)
    /\ helpers.ruleStrings # <<>>
    /\ helpers.ruleStrings[Len(helpers.ruleStrings)] = TypeError

\* the putObject calls among ps that were made (an index without an upload
\* makes none)
IssuedPuts(ps) == {i \in DOMAIN ps : ps[i].state # "skipped"}

\* the number of attachments request r supplied
SuppliedAttachments(r) ==
    IF IsSome(input[r].attachments) THEN Len(Val(input[r].attachments)) ELSE 0

\* C27: once a request has issued its blob writes no further write is issued
\* and a write that has succeeded or failed is not attempted again; the
\* writes of a request go to distinct objects and are never more than the
\* attachments it supplied.
C27_AtMostOneBlobWrite ==
    [][\A r \in Requests :
          /\ puts[r] # <<>>
             => /\ DOMAIN puts'[r] = DOMAIN puts[r]
                /\ \A i \in DOMAIN puts[r] :
                      /\ puts'[r][i].key = puts[r][i].key
                      /\ puts[r][i].state # "inflight" => puts'[r][i] = puts[r][i]
          /\ r \notin responded
             => Cardinality(IssuedPuts(puts[r])) <= SuppliedAttachments(r)
          /\ \A i, j \in IssuedPuts(puts[r]) :
                i # j => puts[r][i].key # puts[r][j].key]_vars

\* a request with two attachments issued two blob writes, one failed, and
\* the request has ended with no third write
C27_Witness ==
    \E r \in Requests :
        /\ pc[r] = "Aborted"
        /\ r \notin responded
        /\ SuppliedAttachments(r) = 2
        /\ Cardinality(IssuedPuts(puts[r])) = 2
        /\ \E i \in DOMAIN puts[r] : puts[r][i].state = "failed"
        /\ \A i \in DOMAIN puts[r] : puts[r][i].state # "inflight"

\* the state of the request's state machine a position of the resolver
\* belongs to
StateOf(p) ==
    IF p = "idle" THEN "Idle"
    ELSE IF p \in {"AuthCheck", "ParseArgs"} THEN "AuthCheck"
    ELSE IF p \in {"Lookup", "ResourceCheck", "TxBegin"} THEN "ResourceCheck"
    ELSE IF p \in {"BaseInsert", "RuleInsert", "BackLink", "InstanceInsert"}
         THEN "RecurringPath"
    ELSE IF p = "EventInsert" THEN "SimplePath"
    ELSE IF p \in {"AttachInsert", "PutObjects", "AwaitPuts"} THEN "AttachmentPersist"
    ELSE IF p = "Commit" THEN "Committing"
    ELSE p

\* the moves of the state machine other than the one to Aborted, for a
\* request with or without a recurrence and with or without attachments
StateMoves(hasRecurrence, hasAttachments) ==
    {<<"Idle", "AuthCheck">>, <<"AuthCheck", "ResourceCheck">>,
     <<"ResourceCheck", IF hasRecurrence THEN "RecurringPath" ELSE "SimplePath">>,
     <<"AttachmentPersist", "Committing">>, <<"Committing", "Committed">>}
    \cup {<<path, IF hasAttachments THEN "AttachmentPersist" ELSE "Committing">> :
              path \in {"RecurringPath", "SimplePath"}}

\* C28: a request moves AuthCheck, ResourceCheck, then RecurringPath if it
\* has a recurrence and SimplePath if it has none, never both, then
\* AttachmentPersist if it has attachments, then Committed; from a state that
\* is not final it may move to Aborted; it never leaves Committed or Aborted.
C28_StateOrder ==
    [][\A r \in Requests :
          StateOf(pc'[r]) # StateOf(pc[r])
          => \/ /\ pc'[r] = "Aborted"
                /\ pc[r] \notin Ended
             \/ <<StateOf(pc[r]), StateOf(pc'[r])>> \in
                   StateMoves(IsSome(input'[r].recurrence),
                              IsSome(input'[r].attachments))]_vars

\* the base events among the rows of a transaction
BasesIn(t) == {e \in t.events : e.isBaseRecurringEvent}

\* the first instances among the rows of a transaction
InstancesIn(t) == {e \in t.events : e.isRecurring /\ ~e.isBaseRecurringEvent}

\* every reference of a row of the transaction is to a base event or a rule
\* the transaction holds
NoDanglingReference(t) ==
    /\ \A x \in t.rules : \E b \in BasesIn(t) : b.id = x.baseRecurringEventId
    /\ \A e \in t.events :
          /\ IsSome(e.baseRecurringEventId)
             => \E b \in BasesIn(t) : b.id = Val(e.baseRecurringEventId)
          /\ IsSome(e.recurrenceRuleId)
             => \E x \in t.rules : x.id = Val(e.recurrenceRuleId)

\* C29: in the transaction of a request the rule is inserted when the base
\* event is there, the base event gets its recurrenceRuleId when the rule is
\* there, and the first instance is inserted when the base event has been
\* linked to the rule, referring to both; no row refers to a base event or a
\* rule the transaction does not hold.
C29_RecurringWriteOrder ==
    [][\A r \in Requests :
          LET old == tx[r]
              new == tx'[r]
          IN  /\ \A x \in new.rules \ old.rules :
                    \E b \in BasesIn(old) :
                        b.id = x.baseRecurringEventId /\ ~IsSome(b.recurrenceRuleId)
              /\ \A b \in BasesIn(new) \ BasesIn(old) :
                    IsSome(b.recurrenceRuleId)
                    => \E x \in old.rules :
                          x.id = Val(b.recurrenceRuleId) /\ x.baseRecurringEventId = b.id
              /\ \A e \in InstancesIn(new) \ InstancesIn(old) :
                    \E b \in BasesIn(old), x \in old.rules :
                        /\ b.recurrenceRuleId = Some(x.id)
                        /\ e.baseRecurringEventId = Some(b.id)
                        /\ e.recurrenceRuleId = Some(x.id)
              /\ NoDanglingReference(new)]_vars

\* a transaction that is still open holds the base event, its rule and the
\* first instance
C29_Witness ==
    \E r \in Requests :
        /\ tx[r].state = "open"
        /\ \E b \in BasesIn(tx[r]), x \in tx[r].rules, e \in InstancesIn(tx[r]) :
              /\ x.baseRecurringEventId = b.id
              /\ b.recurrenceRuleId = Some(x.id)
              /\ e.baseRecurringEventId = Some(b.id)
              /\ e.recurrenceRuleId = Some(x.id)

\* the recurrenceEndDate of request r if it gave one, else one year after the
\* wall clock its call read
BoundOf(r) ==
    IF IsSome(Val(input[r].recurrence).recurrenceEndDate)
    THEN Val(Val(input[r].recurrence).recurrenceEndDate)
    ELSE AddYears(Val(locals[r].clock))

\* C30: the instants createEvent expands are the occurrences of its rule from
\* the authored start up to the recurrenceEndDate when the request gives one
\* and up to one year after the wall clock of the call when it gives none; a
\* request without recurrenceEndDate whose start is later than one year after
\* the wall clock has no instant.
C30_ExpansionBound ==
    \A r \in Requests :
        Expanded(r)
        => /\ locals[r].instanceDates =
                 RuleBetween(rrulestr(Val(locals[r].recurrenceRuleString)),
                             input[r].startAt, BoundOf(r))
           /\ \A i \in 1..Len(locals[r].instanceDates) :
                 locals[r].instanceDates[i] <= BoundOf(r)
           /\ (/\ ~IsSome(Val(input[r].recurrence).recurrenceEndDate)
               /\ input[r].startAt > AddYears(Val(locals[r].clock)))
              => locals[r].instanceDates = <<>>

\* a request without recurrenceEndDate that starts more than a year after the
\* wall clock of its call has expanded to nothing
C30_Witness ==
    \E r \in Requests :
        /\ Expanded(r)
        /\ ~IsSome(Val(input[r].recurrence).recurrenceEndDate)
        /\ input[r].startAt > AddYears(Val(locals[r].clock))
        /\ locals[r].instanceDates = <<>>

\* C31: the rule row of a request has latestInstanceDate equal to the last
\* and greatest of the expanded instants, or to the authored startAt when
\* there is none, and it is not earlier than the start of the instance row.
C31_LatestInstanceDate ==
    \A r \in Requests :
        Expanded(r)
        => \A x \in RuleRowsOf(r) :
              LET dates == locals[r].instanceDates
              IN  /\ Len(dates) > 0
                     => /\ x.latestInstanceDate = dates[Len(dates)]
                        /\ \A i \in 1..Len(dates) : dates[i] <= x.latestInstanceDate
                  /\ Len(dates) = 0 => x.latestInstanceDate = input[r].startAt
                  /\ \A e \in InstanceRowsOf(r) : x.latestInstanceDate >= e.startAt

\* a rule whose expansion has several instants, its instance row written and
\* its high-water mark later than the instance, and a rule without instants
\* in the same store
C31_Witness ==
    /\ \E r \in Requests :
          /\ Expanded(r)
          /\ Len(locals[r].instanceDates) > 1
          /\ \E x \in RuleRowsOf(r), e \in InstanceRowsOf(r) :
                x.latestInstanceDate > e.startAt
    /\ \E x \in AllRuleRows :
          x.latestInstanceDate = x.recurrenceStartDate /\ ~IsSome(x.count)
             /\ ~IsSome(x.recurrenceEndDate)

\* the instants from the authored start of request r up to one year after the
\* wall clock of its call that satisfy the constraints of its recurrence
OccurrencesWithinYear(r) ==
    {t \in input[r].startAt..AddYears(Val(locals[r].clock)) :
        Satisfies(EncoderInput(input[r]), t)}

\* request r has expanded a recurrence that sets count and no recurrenceEndDate
CountWithoutEndDate(r) ==
    /\ Expanded(r)
    /\ IsSome(Val(input[r].recurrence).count)
    /\ ~IsSome(Val(input[r].recurrence).recurrenceEndDate)

\* C32 as stated: with count and no recurrenceEndDate no expanded instant is
\* later than one year after the call, and the number of expanded instants is
\* the smaller of count and the number of occurrences of the rule between the
\* start and one year after the call.
C32_HorizonWinsOverCount ==
    \A r \in Requests :
        CountWithoutEndDate(r)
        => LET dates == locals[r].instanceDates
               count == Val(Val(input[r].recurrence).count)
           IN  /\ \A i \in 1..Len(dates) : dates[i] <= AddYears(Val(locals[r].clock))
               /\ Len(dates) <= count
               /\ Len(dates) = Min(count, Cardinality(OccurrencesWithinYear(r)))

\* request r committed with attachments and its frame is still live
CommittedWithAttachments(r) ==
    /\ pc[r] = "Committed"
    /\ r \notin responded
    /\ IsSome(input[r].attachments)

\* C33: a request that commits with n attachments has inserted exactly n
\* Attachment rows, all owned by the event it returns and named with names no
\* other row has, and has issued exactly n blob writes, the i-th to the
\* configured bucket under the name of the i-th row, reading the i-th upload,
\* with the media type of the i-th row, which is that of the i-th upload.
C33_AttachmentRowsAndWrites ==
    \A r \in Requests :
        CommittedWithAttachments(r)
        => LET atts == Val(input[r].attachments)
               rows == locals[r].createdEventAttachments
           IN  /\ Cardinality(AttachmentsBy(r)) = Len(atts)
               /\ SeqRange(rows) = AttachmentsBy(r)
               /\ Len(rows) = Len(atts)
               /\ \A a \in AttachmentsBy(r) :
                     /\ a.eventId = Val(outcome[r].data).event.id
                     /\ \A b \in attachments \ {a} : b.name # a.name
               /\ Len(puts[r]) = Len(atts)
               /\ \A i \in 1..Len(atts) :
                     /\ puts[r][i].state = "ok"
                     /\ puts[r][i].bucket = bucketName
                     /\ puts[r][i].key = rows[i].name
                     /\ puts[r][i].body = i
                     /\ puts[r][i].contentType = rows[i].mimeType
                     /\ rows[i].mimeType = atts[i]

\* a request committed two attachments after another request had committed
\* an attachment of another media type
C33_Witness ==
    \E r \in Requests :
        /\ CommittedWithAttachments(r)
        /\ Len(Val(input[r].attachments)) = 2
        /\ \E q \in Requests \ {r} :
              \E a \in AttachmentsBy(q) : a.mimeType # Val(input[r].attachments)[1]

\* the keys of the objects the blob writes of request r stored
StoredKeys(r) == {puts[r][i].key : i \in {j \in DOMAIN puts[r] : puts[r][j].state = "ok"}}

\* C34: no step removes an object from the object store, and the objects
\* that the blob writes of a failed request stored stay in the store while
\* no Attachment row, committed or in its transaction, has their name.
C34_BlobsNeverRetracted ==
    [][/\ blobs \subseteq blobs'
       /\ \A r \in Requests :
             pc[r] = "Aborted"
             => \A k \in StoredKeys(r) :
                   /\ \E b \in blobs : b.key = k
                   /\ \A a \in attachments \cup tx[r].attachments : a.name # k]_vars

\* the commit of a request failed after its two blob writes had stored their
\* objects: both objects are in the store and neither has a row
C34_Witness ==
    \E r \in Requests :
        /\ pc[r] = "Aborted"
        /\ Len(puts[r]) = 2
        /\ Cardinality(StoredKeys(r)) = 2
        /\ \A k \in StoredKeys(r) :
              /\ \E b \in blobs : b.key = k
              /\ \A a \in attachments : a.name # k

\* the part `key` of rule string s is there exactly when `present` holds, and
\* then with the value `value`
PartIff(s, key, present, value) ==
    Part(s, key) = IF present THEN Some(value) ELSE None

AgreesWithRuleString(x) ==
    /\ x.frequency = Part(x.recurrenceRuleString, "FREQ")
    /\ Some(x.interval) = Part(x.recurrenceRuleString, "INTERVAL")

\* the recurrence of request r names no frequency
FrequencyAbsent(r) ==
    /\ r \notin responded
    /\ IsSome(input[r].recurrence)
    /\ ~IsSome(Val(input[r].recurrence).frequency)

\* C36 as stated: every rule row stores the frequency and the interval its
\* rule string encodes, and a request whose recurrence names no frequency is
\* not refused for it: it goes on to store a rule with frequency DAILY.
C36_RuleRowAgreesWithString ==
    /\ \A x \in AllRuleRows : AgreesWithRuleString(x)
    /\ \A r \in Requests :
          FrequencyAbsent(r)
          => /\ outcome[r].code # "invalid_arguments"
             /\ \A x \in RuleRowsOf(r) : x.frequency = Some("DAILY")

\* the first defect of request r in the order of the checks: no session,
\* arguments the schema refuses, no user record, no organization of the id
\* given, a caller who administers neither the system nor the organization;
\* "none" when it has no defect
FirstDefect(r) ==
    IF ~input[r].isAuthenticated THEN "unauthenticated"
    ELSE IF ArgumentIssues(input[r]) # <<>> THEN "invalid_arguments"
    ELSE IF ~IsSome(lookup[r].currentUser) THEN "unauthenticated"
    ELSE IF input[r].organizationId \notin organizationsTable THEN NotFound
    ELSE IF /\ Val(lookup[r].currentUser) # "administrator"
            /\ MembershipIn(r) # Some("administrator")
         THEN Unauthorized
    ELSE "none"

\* the checks of request r are over: one has refused it, or all have passed
ChecksOver(r) ==
    /\ r \notin responded
    /\ Checked(r) \/ outcome[r].code \in CheckErrors

\* C37: a request is refused with the code of its first defect in the order
\* no session, invalid arguments, user record missing, organization missing,
\* not an administrator, whatever defects come later in that order; a check
\* that comes after the one that refused it has not run.
C37_CheckPrecedence ==
    \A r \in Requests :
        ChecksOver(r)
        => /\ outcome[r].code \in CheckErrors => outcome[r].code = FirstDefect(r)
           /\ FirstDefect(r) # "none"
              => (pc[r] = "Aborted" /\ outcome[r].code = FirstDefect(r))
           /\ (~input[r].isAuthenticated \/ ArgumentIssues(input[r]) # <<>>)
              => ~lookup[r].done

\* a request without a session whose attachment is not allowed has ended
\* unauthenticated, after another request was told that the organization it
\* named is not found
C37_Witness ==
    \E r \in Requests :
        /\ ChecksOver(r)
        /\ ~input[r].isAuthenticated
        /\ ArgumentIssues(input[r]) # <<>>
        /\ outcome[r].code = "unauthenticated"
        /\ \E q \in Requests \ {r} : outcome[q].code = NotFound

\* the Attachment rows request r has written, in its transaction or committed
AttachmentRowsOf(r) == AttachmentsBy(r) \cup tx[r].attachments

\* C38: no Attachment row, committed or in a transaction, is owned by a base
\* recurring event, and the Attachment rows of a request that has inserted a
\* first instance are owned by that instance.
C38_AttachmentsNotOnBase ==
    \A r \in Requests :
        \A a \in AttachmentRowsOf(r) :
            /\ \A e \in AllEventRows : e.id = a.eventId => ~e.isBaseRecurringEvent
            /\ InstanceRowsOf(r) # {}
               => \E e \in InstanceRowsOf(r) : e.id = a.eventId

\* a recurring request has committed its base event, its first instance and
\* two Attachment rows owned by the instance
C38_Witness ==
    \E r \in Requests :
        /\ pc[r] = "Committed"
        /\ BaseEventsBy(r) # {}
        /\ Cardinality(AttachmentsBy(r)) = 2
        /\ \A a \in AttachmentsBy(r) : \E e \in InstancesBy(r) : e.id = a.eventId

\* all Attachment rows, committed or written in a transaction
AllAttachmentRows == attachments \cup UNION {tx[r].attachments : r \in Requests}

\* the requests that inserted the Event row of id `id`
EventOwners(id) == {e.by : e \in {f \in AllEventRows : f.id = id}}

\* the requests that inserted the RecurrenceRule row of id `id`
RuleOwners(id) == {x.by : x \in {y \in AllRuleRows : y.id = id}}

\* every reference of a row is to a row the same request inserted
LinksWithinRequest ==
    /\ \A e \in AllEventRows :
          /\ IsSome(e.baseRecurringEventId)
             => EventOwners(Val(e.baseRecurringEventId)) = {e.by}
          /\ IsSome(e.recurrenceRuleId)
             => RuleOwners(Val(e.recurrenceRuleId)) = {e.by}
    /\ \A x \in AllRuleRows : EventOwners(x.baseRecurringEventId) = {x.by}
    /\ \A a \in AllAttachmentRows : EventOwners(a.eventId) = {a.by}

\* what request r ended with follows from its own arguments, its own session
\* and the rows its own queries found
OutcomeOfOwnInput(r) ==
    /\ (ChecksOver(r) /\ outcome[r].code \in CheckErrors)
       => outcome[r].code = FirstDefect(r)
    /\ (outcome[r].code = "ok" /\ r \notin responded)
       => LET ret == Val(outcome[r].data)
          IN  /\ ret.event.by = r
              /\ ret.event.organizationId = input[r].organizationId
              /\ ret.event.startAt =
                    IF locals[r].instanceDates # <<>>
                    THEN locals[r].instanceDates[1] ELSE input[r].startAt
              /\ ret.event.endAt - ret.event.startAt = input[r].duration
              /\ Len(ret.attachments) = SuppliedAttachments(r)
              /\ \A i \in 1..Len(ret.attachments) :
                    /\ ret.attachments[i].by = r
                    /\ ret.attachments[i].eventId = ret.event.id
                    /\ ret.attachments[i].mimeType = Val(input[r].attachments)[i]

\* C39: however the steps of two concurrent requests interleave, every
\* reference of an instance, a rule, a base event or an Attachment row is to
\* a row the same request inserted, and what each request ends with follows
\* from its own input.
C39_NoCrossLinks ==
    /\ LinksWithinRequest
    /\ \A r \in Requests : OutcomeOfOwnInput(r)

\* two recurring requests ran interleaved, the second inserting its base
\* event between the base event and the rule of the first, and both have
\* committed a first instance
C39_Witness ==
    \E r, q \in Concurrent :
        /\ r # q
        /\ pc[r] = "Committed" /\ pc[q] = "Committed"
        /\ InstancesBy(r) # {} /\ InstancesBy(q) # {}
        /\ \E b \in BaseEventsBy(r), c \in BaseEventsBy(q), x \in RulesBy(r) :
              b.id < c.id /\ c.id < x.id

\* C40: a request that has begun eventually ends Committed or Aborted, given
\* that each operation it awaits eventually returns or fails.
C40_Terminates ==
    \A r \in Followed : (pc[r] # "idle") ~> (pc[r] \in Ended)

\* a request has ended after its blob writes returned or failed, one failing
C40_Witness ==
    \E r \in Followed :
        /\ pc[r] \in Ended
        /\ puts[r] # <<>>
        /\ \A i \in DOMAIN puts[r] : puts[r][i].state \notin {"inflight"}
        /\ \E i \in DOMAIN puts[r] : puts[r][i].state = "failed"

=============================================================================
